---------------------------- MODULE Spec2Model ----------------------------
(***************************************************************************)
(* A model of the denon-adapter bridge (src/unnamed/part_000 is the most   *)
(* complete version; src/index.js and src/unnamed/part_001 are earlier     *)
(* versions of the same adapter).                                          *)
(*                                                                         *)
(* Strings are TLA+ strings; slicing, prefix tests and padding are         *)
(* computed character by character, as the code computes them.             *)
(* JavaScript values are tagged records:                                   *)
(*   [t |-> "undef"], [t |-> "nan"], [t |-> "bool", b |-> ...],            *)
(*   [t |-> "str", s |-> "..."]    , [t |-> "num", n |-> num, d |-> den]   *)
(* where a number is the exact rational n/d in lowest terms.               *)
(***************************************************************************)
EXTENDS Integers, Sequences, FiniteSets, TLC

(***************************************************************************)
(* JavaScript values                                                       *)
(***************************************************************************)
Undef == [t |-> "undef"]

Null == [t |-> "null"]

NaN == [t |-> "nan"]

Bool(b) == [t |-> "bool", b |-> b]

Str(s) == [t |-> "str", s |-> s]

RECURSIVE Gcd(_, _)
Gcd(a, b) == IF b = 0 THEN a ELSE Gcd(b, a % b)

Abs(x) == IF x < 0 THEN -x ELSE x

\* the rational n/d (d > 0) in lowest terms
Rat(n, d) ==
    LET g == Gcd(Abs(n), d)
    IN  [t |-> "num", n |-> n \div g, d |-> d \div g]

Num(n) == Rat(n, 1)

\* a + b on numbers, NaN absorbing
JsAdd(a, b) ==
    IF a.t = "nan" \/ b.t = "nan" THEN NaN
    ELSE Rat(a.n * b.d + b.n * a.d, a.d * b.d)

\* a / k for a positive integer k
JsDivInt(a, k) ==
    IF a.t = "nan" THEN NaN ELSE Rat(a.n, a.d * k)

\* a < b on numbers; every comparison with NaN or undefined is false
JsLess(a, b) ==
    /\ a.t = "num"
    /\ b.t = "num"
    /\ a.n * b.d < b.n * a.d

\* the === operator
StrictEq(a, b) == a.t # "nan" /\ a = b

\* Math.floor of a number
Floor(a) == a.n \div a.d

(***************************************************************************)
(* Strings (TLC evaluates Len, Head, Tail, SubSeq and \o on strings)       *)
(***************************************************************************)
Digits == <<"0", "1", "2", "3", "4", "5", "6", "7", "8", "9">>

IsDigit(c) == \E i \in 1..10 : Digits[i] = c

DigitVal(c) == (CHOOSE i \in 1..10 : Digits[i] = c) - 1

\* String.prototype.startsWith
StartsWith(s, p) == Len(s) >= Len(p) /\ SubSeq(s, 1, Len(p)) = p

\* String.prototype.endsWith
EndsWith(s, p) == Len(s) >= Len(p) /\ SubSeq(s, Len(s) - Len(p) + 1, Len(s)) = p

\* s.slice(k) for k >= 0
SliceFrom(s, k) == SubSeq(s, k + 1, Len(s))

\* s.slice(0, k) for k >= 0
SliceTo(s, k) == SubSeq(s, 1, IF k < Len(s) THEN k ELSE Len(s))

\* s.slice(0, -1)
DropLast(s) == SubSeq(s, 1, Len(s) - 1)

\* the white space of the lines: the blank and the carriage return
IsSpace(c) == c = " " \/ c = "\r"

RECURSIVE TrimLeft(_)
TrimLeft(s) == IF Len(s) > 0 /\ IsSpace(Head(s)) THEN TrimLeft(Tail(s)) ELSE s

RECURSIVE TrimRight(_)
TrimRight(s) ==
    IF Len(s) > 0 /\ IsSpace(SubSeq(s, Len(s), Len(s)))
    THEN TrimRight(DropLast(s)) ELSE s

\* String.prototype.trim
Trim(s) == TrimRight(TrimLeft(s))

\* s.split(sep) for a one-character separator; cur is the piece being read
RECURSIVE Split(_, _, _)
Split(s, sep, cur) ==
    IF Len(s) = 0 THEN <<cur>>
    ELSE IF Head(s) = sep THEN <<cur>> \o Split(Tail(s), sep, "")
    ELSE Split(Tail(s), sep, cur \o Head(s))

\* the decimal digits of a natural number (toFixed(0) of an integer)
RECURSIVE ToDigits(_)
ToDigits(n) ==
    IF n < 10 THEN Digits[n + 1]
    ELSE ToDigits(n \div 10) \o Digits[(n % 10) + 1]

\* String.prototype.padStart(w, '0')
RECURSIVE PadStart(_, _)
PadStart(s, w) == IF Len(s) >= w THEN s ELSE PadStart("0" \o s, w)

\* the value of the longest prefix of s made of digits, acc so far
RECURSIVE DigitPrefix(_, _)
DigitPrefix(s, acc) ==
    IF Len(s) > 0 /\ IsDigit(Head(s))
    THEN DigitPrefix(Tail(s), acc * 10 + DigitVal(Head(s)))
    ELSE acc

RECURSIVE AllDigits(_)
AllDigits(s) == Len(s) = 0 \/ (IsDigit(Head(s)) /\ AllDigits(Tail(s)))

\* Number.parseInt of a string: leading white space is skipped, then an
\* optional sign and the longest run of digits; NaN when there is no digit
ParseInt(str) ==
    LET s == TrimLeft(str)
        neg == Len(s) > 0 /\ Head(s) = "-"
        body == IF Len(s) > 0 /\ Head(s) \in {"-", "+"} THEN Tail(s) ELSE s
    IN  IF Len(body) = 0 \/ ~IsDigit(Head(body)) THEN NaN
        ELSE Num(IF neg THEN -DigitPrefix(body, 0) ELSE DigitPrefix(body, 0))

\* the numeric value of a string (unary conversion of s / 100): the trimmed
\* string must be empty (0) or all digits, else NaN
ToNumber(str) ==
    LET s == Trim(str)
    IN  IF Len(s) = 0 THEN Num(0)
        ELSE IF AllDigits(s) THEN Num(DigitPrefix(s, 0))
        ELSE NaN

(***************************************************************************)
(* Line codec of the receiver protocol (part_000)                          *)
(***************************************************************************)
TOGGLE_TRUE == "ON"

TOGGLE_FALSE == "OFF"

\* DenonProperty.formatVolume
formatVolume(value) ==
    LET intPart == Floor(value)
        stringValue == PadStart(ToDigits(intPart), 2)
    IN  IF Num(intPart) # value THEN stringValue \o "5" ELSE stringValue

\* the truthiness of a value (value ? a : b)
Truthy(v) ==
    CASE v.t = "bool" -> v.b
      [] v.t = "str" -> Len(v.s) > 0
      [] v.t = "num" -> v.n # 0
      [] OTHER -> FALSE

\* DenonProperty.formatToggle
formatToggle(value) == IF Truthy(value) THEN TOGGLE_TRUE ELSE TOGGLE_FALSE

\* DenonDevice.parseVolume: the divisor is 10 * length - 2, as written
parseVolume(volume) ==
    LET parsedVolume == ParseInt(SliceTo(volume, 2))
    IN  IF Len(volume) > 2
        THEN LET extra == ParseInt(SliceFrom(volume, 2))
             IN  JsAdd(parsedVolume, JsDivInt(extra, 10 * Len(volume) - 2))
        ELSE parsedVolume

(***************************************************************************)
(* Property schemas (part_000): HEOSDevice.buildSchema,                    *)
(* DenonDevice.buildSchema and the DenonZone constructor.  A device of the *)
(* device model is "heos" (a single-protocol HEOSDevice), "avr" (a         *)
(* dual-protocol DenonDevice) or "zone" (the DenonZone of "avr").          *)
(***************************************************************************)
NoEnum == {}

AvrInputs ==
    {"PHONO", "CD", "DVD", "BD", "TV", "SAT/CBL", "MPLAY", "GAME", "TUNER",
     "AUX1", "AUX2", "NET", "BT"}

ZoneInputs == AvrInputs \cup {"SOURCE"}

SurroundModes ==
    {"MOVIE", "MUSIC", "GAME", "DIRECT", "PURE DIRECT", "STEREO", "AUTO",
     "DOLBY DIGITAL", "DTS SURROUND", "MCH STEREO", "ROCK ARENA", "JAZZ CLUB",
     "MONO MOVIE", "MATRIX", "VIDEO GAME", "VIRTUAL"}

\* a property description: class, readOnly, minimum, maximum, enum
Descr(cls, ro, min, max, enum) ==
    [cls |-> cls, readOnly |-> ro, minimum |-> min, maximum |-> max, enum |-> enum]

\* the properties HEOSDevice.buildSchema adds (sourceNames: the enum of source)
HeosSchema(sourceNames) ==
    [playing |-> Descr("HEOSProperty", FALSE, Undef, Undef, NoEnum),
     volume |-> Descr("HEOSProperty", FALSE, Num(0), Num(100), NoEnum),
     muted |-> Descr("HEOSProperty", FALSE, Undef, Undef, NoEnum),
     repeat |-> Descr("HEOSProperty", FALSE, Undef, Undef, {"off", "on_one", "on_all"}),
     shuffle |-> Descr("HEOSProperty", FALSE, Undef, Undef, NoEnum),
     title |-> Descr("HEOSProperty", TRUE, Undef, Undef, NoEnum),
     artist |-> Descr("HEOSProperty", TRUE, Undef, Undef, NoEnum),
     album |-> Descr("HEOSProperty", TRUE, Undef, Undef, NoEnum),
     station |-> Descr("HEOSProperty", TRUE, Undef, Undef, NoEnum),
     source |-> Descr("HEOSProperty", TRUE, Undef, Undef, sourceNames)]

\* the properties DenonDevice.buildSchema adds; volume and muted replace
\* the HEOSProperty of the same name
DenonSchema ==
    [on |-> Descr("DenonProperty", FALSE, Undef, Undef, NoEnum),
     avrSource |-> Descr("DenonProperty", FALSE, Undef, Undef, AvrInputs),
     volume |-> Descr("DenonProperty", FALSE, Num(0), Num(98), NoEnum),
     muted |-> Descr("DenonProperty", FALSE, Undef, Undef, NoEnum),
     audioOutput |-> Descr("DenonProperty", TRUE, Undef, Undef,
                           {"Speaker", "Bluetooth Headphones"}),
     surroundMode |-> Descr("DenonProperty", FALSE, Undef, Undef, SurroundModes),
     audysseyLFC |-> Descr("DenonProperty", FALSE, Undef, Undef, NoEnum),
     tunerFrequency |-> Descr("DenonProperty", FALSE, Num(80), Undef, NoEnum),
     preset |-> Descr("DenonProperty", FALSE, Num(1), Num(56), NoEnum),
     band |-> Descr("DenonProperty", FALSE, Undef, Undef, {"AM", "FM"})]

\* the properties the DenonZone constructor adds
ZoneSchema ==
    [on |-> Descr("ZoneProperty", FALSE, Undef, Undef, NoEnum),
     input |-> Descr("ZoneProperty", FALSE, Undef, Undef, ZoneInputs),
     volume |-> Descr("ZoneProperty", FALSE, Num(0), Num(98), NoEnum),
     muted |-> Descr("ZoneProperty", FALSE, Undef, Undef, NoEnum)]

\* f overridden by g (addProperty replaces a property of the same name)
Override(f, g) ==
    [k \in DOMAIN f \cup DOMAIN g |-> IF k \in DOMAIN g THEN g[k] ELSE f[k]]

\* the property table of a device of the given kind
SchemaOf(kind, sourceNames) ==
    CASE kind = "heos" -> HeosSchema(sourceNames)
      [] kind = "avr" -> Override(HeosSchema(sourceNames), DenonSchema)
      [] kind = "zone" -> ZoneSchema

\* the template string `${value}`
ToStr(v) ==
    CASE v.t = "str" -> v.s
      [] v.t = "bool" -> IF v.b THEN "true" ELSE "false"
      [] v.t = "num" /\ v.d = 1 /\ v.n >= 0 -> ToDigits(v.n)
      [] v.t = "nan" -> "NaN"
      [] v.t = "undef" -> "undefined"
      [] v.t = "null" -> "null"
      [] OTHER -> "<number>"

\* HEOSProperty.checkValue that accepts every value
checkValue_Accept(descr, value) == TRUE

\* HEOSProperty.checkValue: TRUE when no error is thrown
checkValue(descr, value) ==
    /\ ~descr.readOnly
    /\ ~(descr.minimum.t # "undef" /\ JsLess(value, descr.minimum))
    /\ ~(descr.maximum.t # "undef" /\ JsLess(descr.maximum, value))
    /\ ~(descr.enum # {} /\ ToStr(value) \notin descr.enum)


(***************************************************************************)
(* The world of the handlers.  A world w is the record of everything the   *)
(* handlers read and write: the device objects (w.objs, by object number), *)
(* the property caches, the adapter's device table, the receiver sockets,  *)
(* the streaming connections and the suspended async functions.            *)
(*                                                                         *)
(* An async function is a list of steps.  Run executes steps until one     *)
(* suspends: the rest of the list is kept with what it waits for (a write  *)
(* callback, a response frame, a connect), and resumed by that event.  A   *)
(* thrown error skips to the next catch step of the list; a list with no   *)
(* catch step left ends there.                                             *)
(***************************************************************************)
Set(dev, name, val) == [op |-> "set", dev |-> dev, name |-> name, val |-> val]

Field(dev, name, val) == [op |-> "field", dev |-> dev, name |-> name, val |-> val]

Send(dev, msg) == [op |-> "send", dev |-> dev, msg |-> msg]

Line(dev, msg) == [op |-> "line", dev |-> dev, msg |-> msg]

ZoneLine(dev, msg) == [op |-> "zline", dev |-> dev, msg |-> msg]

Fork(ops) == [op |-> "fork", ops |-> ops]

Defer(ops) == [op |-> "defer", ops |-> ops]

InitProps(dev) == [op |-> "init", dev |-> dev]

ZoneInitProps(dev) == [op |-> "zinit", dev |-> dev]

ParentInitProps(dev) == [op |-> "pinit", dev |-> dev]

Throw == [op |-> "throw"]

Catch(handler) == [op |-> "catch", handler |-> handler]

Settle(call, status) == [op |-> "settle", call |-> call, status |-> status]

Emit(dev, name) == [op |-> "emit", dev |-> dev, name |-> name]

Ensure == [op |-> "ensure"]

Adopt == [op |-> "adopt"]

AdoptIfNone == [op |-> "adoptIfNone"]

ApplySources == [op |-> "applySources"]

RegisterClose == [op |-> "registerClose"]

UpdateAll == [op |-> "updateAll"]

UpdateState(dev) == [op |-> "updateState", dev |-> dev]

HeosListen(dev) == [op |-> "heosListen", dev |-> dev]

AwaitReady(sock) == [op |-> "awaitReady", sock |-> sock]

PickCurrent == [op |-> "pick"]

Connect(address, temp) == [op |-> "connect", address |-> address, temp |-> temp]

OnceWrite(group, command, options, tracked, temp) ==
    [op |-> "onceWrite", group |-> group, command |-> command,
     options |-> options, tracked |-> tracked, temp |-> temp]

PassFinish == [op |-> "passFinish"]

RemoveUnseen(seenPids) == [op |-> "removeUnseen", seenPids |-> seenPids]

SsdpDiscover(avr) == [op |-> "ssdpDiscover", avr |-> avr]

OnDiscover(player, avr) == [op |-> "onDiscover", player |-> player, avr |-> avr]

Construct(kind, player, avr) ==
    [op |-> "construct", kind |-> kind, player |-> player, avr |-> avr]

UpdateAVR(dev, avr) == [op |-> "updateAVR", dev |-> dev, avr |-> avr]

ConnectedNotify(dev, state) == [op |-> "connectedNotify", dev |-> dev, state |-> state]

RemoveThing(dev) == [op |-> "removeThing", dev |-> dev]

Destroy(dev) == [op |-> "destroy", dev |-> dev]

ClearParent(dev) == [op |-> "clearParent", dev |-> dev]

ClearZone(dev) == [op |-> "clearZone", dev |-> dev]

Unregister(dev) == [op |-> "unregister", dev |-> dev]

Return == [op |-> "return"]

Register(dev) == [op |-> "register", dev |-> dev]

\* no receiver record (the avr argument of onDiscover left out)
NoAvr == [address |-> "", serial |-> ""]

\* no player (heosPlayers[0] of an empty list)
NoPlayer == [pid |-> 0, serial |-> ""]

ZONE2 == "Z2"

\* `heos-${player.pid}`
HeosId(pid) == "heos-" \o ToDigits(pid)

\* DenonDevice.buildSchema without the replacement of volume and muted
replacedProperties_None(kind) == {}

\* HEOSDevice.replacedProperties: [] from the HEOSDevice constructor,
\* ['volume', 'muted'] from DenonDevice.buildSchema
replacedProperties(kind) == IF kind = "avr" THEN {"volume", "muted"} ELSE {}

\* the object the device table holds under an id (0: none)
GetDevice(w, id) ==
    LET hit == {i \in 1..Len(w.devices) : w.devices[i].id = id}
    IN  IF hit = {} THEN 0 ELSE w.devices[CHOOSE i \in hit : TRUE].dev

\* the queries DenonDevice.initDenonProperties sends before the zone's
InitCommands ==
    <<"PSLFC?", "TFAN?", "TFANNAME?", "TPAN?", "TMAN?", "MV?", "MU?", "MS?",
      "SI?", "OPTXM?">>

\* DenonZone.handleDenonInfo (message: the line without its terminator)
zone_handleDenonInfo(w, zone, message) ==
    LET withoutZone == SliceFrom(message, Len(ZONE2))
    IN  IF StartsWith(withoutZone, "MU")
        THEN <<Set(zone, "muted", Bool(EndsWith(message, TOGGLE_TRUE)))>>
        ELSE IF ParseInt(withoutZone).t # "nan"
        THEN <<Set(zone, "volume", parseVolume(withoutZone))>>
        ELSE IF withoutZone = TOGGLE_TRUE \/ withoutZone = TOGGLE_FALSE
        THEN (IF withoutZone = TOGGLE_TRUE THEN <<ParentInitProps(zone)>> ELSE <<>>)
             \o <<Set(zone, "on", Bool(withoutZone = TOGGLE_TRUE))>>
        ELSE IF withoutZone \in ZoneInputs
        THEN <<Set(zone, "input", Str(withoutZone))>>
        ELSE <<>>

\* the pieces p of a split delivery that are handled, each as p + "\r"
RECURSIVE NonEmptyLines(_, _)
NonEmptyLines(dev, pieces) ==
    IF pieces = <<>> THEN <<>>
    ELSE (IF Len(Head(pieces)) > 0 THEN <<Line(dev, Head(pieces) \o "\r")>> ELSE <<>>)
         \o NonEmptyLines(dev, Tail(pieces))

\* the TFANNAME branch that sets the station whatever the source is
rdsName_AnySource(dev, source, name) ==
    <<Field(dev, "overrideStation", source # Str("NET")),
      Set(dev, "station", Str(name))>>

\* the TFANNAME branch of DenonDevice.handleDenonInfo: source is the value
\* of avrSource, name the trimmed RDS name
rdsName(dev, source, name) ==
    <<Field(dev, "overrideStation", source # Str("NET"))>>
    \o (IF source # Str("TUNER") THEN <<>>
        ELSE <<Set(dev, "station", Str(name))>>)

\* DenonDevice.handleDenonInfo for one line, after "strip \r"
handleDenonLine(w, dev, message) ==
    IF StartsWith(message, "PSLFC")
    THEN <<Set(dev, "audysseyLFC", Bool(EndsWith(message, " ON")))>>
    ELSE IF StartsWith(message, "TFANNAME")
    THEN rdsName(dev, w.cache[dev]["avrSource"], Trim(SliceFrom(message, 8)))
    ELSE IF StartsWith(message, "TFAN")
    THEN LET q == ToNumber(SliceFrom(message, 4))
         IN  <<Set(dev, "tunerFrequency",
                   IF q.t = "nan" THEN NaN ELSE Num(q.n \div 100))>>
    ELSE IF StartsWith(message, "TMAN") /\ Len(message) = 6
    THEN <<Set(dev, "band", Str(SliceFrom(message, 4)))>>
    ELSE IF StartsWith(message, "TPAN")
    THEN LET presetNumber == ParseInt(SliceFrom(message, 4))
         IN  IF presetNumber.t # "nan"
             THEN <<Set(dev, "preset", presetNumber)>> ELSE <<>>
    ELSE IF StartsWith(message, "MV")
    THEN <<Set(dev, "volume", parseVolume(Trim(SliceFrom(message, 2))))>>
    ELSE IF StartsWith(message, "MU")
    THEN <<Set(dev, "muted", Bool(EndsWith(message, TOGGLE_TRUE)))>>
    ELSE IF StartsWith(message, "SI")
    THEN LET source == SliceFrom(message, 2)
         IN  (IF source # "NET" /\ source # "TUNER"
              THEN <<Set(dev, "station", Str(""))>> ELSE <<>>)
             \o <<Set(dev, "avrSource", Str(source))>>
    ELSE IF StartsWith(message, "MS")
    THEN <<Set(dev, "surroundMode", Str(SliceFrom(message, 2)))>>
    ELSE IF StartsWith(message, "ZM")
    THEN (IF EndsWith(message, TOGGLE_TRUE) THEN <<InitProps(dev)>> ELSE <<>>)
         \o <<Set(dev, "on", Bool(EndsWith(message, TOGGLE_TRUE)))>>
    ELSE IF message = "PWSTANDBY"
    THEN <<Set(dev, "on", Bool(FALSE))>>
         \o (IF w.objs[dev].zone2 = 0 THEN <<Throw>>
             ELSE <<Set(w.objs[dev].zone2, "on", Bool(FALSE))>>)
    ELSE IF message = "PWON"
    THEN (IF w.objs[dev].initedProperties THEN <<>>
          ELSE <<Send(dev, "ZM?"), Send(dev, "Z2?")>>)
    ELSE IF StartsWith(message, "OPTXM")
    THEN LET parts == Split(message, " ", "")
         IN  IF Len(parts) < 2 THEN <<Throw>>
             ELSE IF Trim(parts[2]) = "CON"
             THEN <<Set(dev, "audioOutput", Str("Bluetooth Headphones"))>>
             ELSE IF Trim(parts[2]) = "DIS"
             THEN <<Set(dev, "audioOutput", Str("Speaker"))>>
             ELSE <<>>
    ELSE IF w.objs[dev].zone2 = 0
    THEN <<Throw>>
    ELSE IF StartsWith(message, ZONE2)
    THEN <<Fork(<<ZoneLine(w.objs[dev].zone2, message)>>)>>
    ELSE <<>>

\* DenonDevice.handleDenonInfo: a delivery of more than one terminator is
\* split and each non-empty piece handled in turn; otherwise the last
\* character is dropped and the line classified
handleDenonInfo(w, dev, message) ==
    IF Len(Split(message, "\r", "")) > 2
    THEN NonEmptyLines(dev, Split(message, "\r", ""))
    ELSE handleDenonLine(w, dev, DropLast(message))

\* DenonDevice.sendCommand: the message is written as it is
sendCommand(message) == message

(***************************************************************************)
(* The receiver line handlers of the earlier versions                      *)
(***************************************************************************)
\* DenonDevice.initDenonProperties of index.js: the queries go through
\* connection.exec
index_initDenonProperties(w, dev) ==
    IF w.objs[dev].initedProperties THEN <<>>
    ELSE <<Field(dev, "initedProperties", TRUE)>>
         \o [i \in 1..Len(InitCommands) |-> Send(dev, InitCommands[i])]

\* DenonDevice.handleDenonInfo of index.js for one line, after "strip \r"
index_handleDenonLine(w, dev, message) ==
    IF StartsWith(message, "PSLFC")
    THEN <<Set(dev, "audysseyLFC", Bool(EndsWith(message, " ON")))>>
    ELSE IF StartsWith(message, "TFANNAME")
    THEN LET name == Trim(SliceFrom(message, 8))
             source == w.cache[dev]["source"]
         IN  <<Field(dev, "overrideStation", source # Str("NET"))>>
             \o (IF source # Str("TUNER") THEN <<>>
                 ELSE <<Set(dev, "station", Str(name))>>)
    ELSE IF StartsWith(message, "TFAN")
    THEN LET q == ToNumber(SliceFrom(message, 4))
         IN  <<Set(dev, "tunerFrequency",
                   IF q.t = "nan" THEN NaN ELSE Num(q.n \div 100))>>
    ELSE IF StartsWith(message, "TMAN") /\ Len(message) = 6
    THEN <<Set(dev, "band", Str(SliceFrom(message, 4)))>>
    ELSE IF StartsWith(message, "TPAN")
    THEN LET presetNumber == ParseInt(SliceFrom(message, 4))
         IN  IF presetNumber.t # "nan"
             THEN <<Set(dev, "preset", presetNumber)>> ELSE <<>>
    ELSE IF StartsWith(message, "MV")
    THEN LET volume == Trim(SliceFrom(message, 2))
         IN  <<Set(dev, "volume",
                   IF Len(volume) > 2
                   THEN JsAdd(ParseInt(SliceTo(volume, 2)),
                              JsDivInt(ParseInt(SliceFrom(volume, 2)),
                                       10 * Len(volume) - 2))
                   ELSE ParseInt(volume))>>
    ELSE IF StartsWith(message, "MU")
    THEN <<Set(dev, "muted", Bool(EndsWith(message, "ON")))>>
    ELSE IF StartsWith(message, "SI")
    THEN LET source == SliceFrom(message, 2)
         IN  (IF source # "NET" /\ source # "TUNER"
              THEN <<Set(dev, "station", Str(""))>> ELSE <<>>)
             \o <<Set(dev, "source", Str(source))>>
    ELSE IF StartsWith(message, "MS")
    THEN <<Set(dev, "surroundMode", Str(SliceFrom(message, 2)))>>
    ELSE IF message = "PWON"
    THEN <<Set(dev, "on", Bool(TRUE))>> \o index_initDenonProperties(w, dev)
    ELSE IF message = "PWSTANDBY"
    THEN <<Set(dev, "on", Bool(FALSE))>>
    ELSE IF StartsWith(message, "OPTXM")
    THEN LET parts == Split(message, " ", "")
         IN  IF Len(parts) < 2 THEN <<Throw>>
             ELSE IF Trim(parts[2]) = "CON"
             THEN <<Set(dev, "audioOutput", Str("Bluetooth Headphones"))>>
             ELSE IF Trim(parts[2]) = "DIS"
             THEN <<Set(dev, "audioOutput", Str("Speaker"))>>
             ELSE <<>>
    ELSE <<>>

\* DenonDevice.handleDenonInfo of index.js
index_handleDenonInfo(w, dev, message) ==
    IF Len(Split(message, "\r", "")) > 2
    THEN NonEmptyLines(dev, Split(message, "\r", ""))
    ELSE index_handleDenonLine(w, dev, DropLast(message))

\* DenonDevice.handleDenonInfo of part_001: the message is classified as
\* delivered, and the test for TFAN comes before the test for TFANNAME
part_001_handleDenonInfo(w, dev, message) ==
    IF StartsWith(message, "PSLFC")
    THEN <<Set(dev, "audysseyLFC", Bool(EndsWith(message, " ON")))>>
    ELSE IF StartsWith(message, "TFAN")
    THEN LET q == ToNumber(SliceFrom(message, 4))
         IN  <<Set(dev, "tunerFrequency",
                   IF q.t = "nan" THEN NaN ELSE Num(q.n \div 100))>>
    ELSE IF StartsWith(message, "TMAN") /\ Len(message) = 6
    THEN <<Set(dev, "band", Str(SliceFrom(message, 4)))>>
    ELSE IF StartsWith(message, "TPAN")
    THEN LET presetNumber == ParseInt(SliceFrom(message, 4))
         IN  IF presetNumber.t # "nan"
             THEN <<Set(dev, "preset", presetNumber)>> ELSE <<>>
    ELSE IF StartsWith(message, "TFANNAME")
    THEN IF Len(message) > 0 THEN <<Set(dev, "station", Str(message))>> ELSE <<>>
    ELSE <<>>

\* the line handler of the version of the world
lineHandler(w, dev, message) ==
    CASE w.version = "part_000" -> handleDenonInfo(w, dev, message)
      [] w.version = "index.js" -> index_handleDenonInfo(w, dev, message)
      [] w.version = "part_001" -> part_001_handleDenonInfo(w, dev, message)

(***************************************************************************)
(* The objects of the world                                                *)
(***************************************************************************)
\* the fields of a device object after its constructor
NewDevice(kind, id, player, avr, sock, zone2, parent) ==
    [kind |-> kind, id |-> id, heosPlayer |-> player, avr |-> avr,
     isAVR |-> kind = "avr", isZone |-> kind = "zone",
     destroyed |-> FALSE, hasHeosConnectionListener |-> FALSE,
     overrideStation |-> FALSE, sourceType |-> Null,
     availablePlaybackOptions |-> <<>>, initedProperties |-> FALSE,
     denonDevice |-> sock, zone2 |-> zone2, parent |-> parent,
     connected |-> "unknown", destroyCalls |-> 0]

\* the names of the properties of a device of a kind, by version: in
\* index.js the receiver's source replaces the streaming source, which is
\* kept as heosSource; part_001 has the tuner properties only
PropertyNames(version, kind) ==
    CASE version = "part_000" -> DOMAIN SchemaOf(kind, {})
      [] version = "index.js" /\ kind = "avr" ->
            (DOMAIN SchemaOf("avr", {}) \ {"avrSource"}) \cup {"heosSource"}
      [] version = "part_001" /\ kind = "avr" ->
            DOMAIN SchemaOf("heos", {})
            \cup {"on", "audysseyLFC", "tunerFrequency", "preset", "band"}
      [] OTHER -> DOMAIN SchemaOf("heos", {})

\* the property cache of a new device: no value yet
NewCache(version, kind) == [name \in PropertyNames(version, kind) |-> Undef]

\* a socket from net.createConnection(23, address, resolve) with the three
\* listeners of updateAVR; waiters: the callbacks of the ready promise
NewSocket(address, owner, waiters) ==
    [address |-> address, state |-> "connecting", connected |-> FALSE,
     listeners |-> {"close", "connect", "data"}, owner |-> owner,
     waiters |-> waiters]

\* a connection of the streaming protocol from discoverAndConnect or connect
NewConnection(temp) ==
    [open |-> TRUE, once |-> <<>>, onAll |-> <<>>, closeHandler |-> FALSE,
     eventHandlers |-> FALSE, temp |-> temp]

NoMessage == [group |-> "", command |-> ""]

\* the depth of nested calls at which a call throws a RangeError
StackLimit == 6

\* the steps a thrown error continues with: the handler of the innermost
\* try block the throw is in, followed by the steps after the block
RECURSIVE Unwind(_, _, _)
Unwind(rest, nested, returns) ==
    IF rest = <<>> THEN [caught |-> FALSE, ops |-> <<>>, returns |-> returns, call |-> 0]
    ELSE LET o == Head(rest)
         IN  CASE o.op = "try" -> Unwind(Tail(rest), nested + 1, returns)
               [] o.op = "catch" ->
                    IF nested = 0
                    THEN [caught |-> TRUE, ops |-> o.handler \o Tail(rest),
                          returns |-> returns, call |-> 0]
                    ELSE Unwind(Tail(rest), nested - 1, returns)
               [] o.op = "settle" ->
                    [caught |-> FALSE, ops |-> <<>>, returns |-> returns,
                     call |-> o.call]
               [] o.op = "return" -> Unwind(Tail(rest), nested, returns + 1)
               [] OTHER -> Unwind(Tail(rest), nested, returns)

\* DenonAdapter.makeHeosRequest
makeHeosRequest(commandGroup, command, options, callingDevice) ==
    <<[op |-> "try"], Ensure, PickCurrent,
      Catch(<<[op |-> "requestFail", caller |-> callingDevice]>>),
      OnceWrite(commandGroup, command, options, TRUE, FALSE)>>

\* DenonAdapter.initSources
initSources ==
    makeHeosRequest("browser", "get_music_sources", <<>>, 0) \o <<ApplySources>>

\* DenonAdapter.ensureHeosConnection after discoverAndConnect has resolved
ensureHeosConnection_connected ==
    <<Adopt, [op |-> "try"]>> \o initSources
    \o <<Catch(<<>>), RegisterClose, UpdateAll>>

\* DenonAdapter._startPairing: getHeosPlayers, then the two loops
_startPairing ==
    <<Ensure>> \o makeHeosRequest("player", "get_players", <<>>, 0) \o <<PassFinish>>

\* the response handler of DenonAdapter.getDenonAVRs for a fetched record
ssdpResponse(avr) ==
    <<[op |-> "try"], Connect(avr.address, FALSE), AdoptIfNone,
      OnceWrite("player", "get_players", <<>>, FALSE, FALSE),
      SsdpDiscover(avr), Catch(<<Emit(0, "pairingPrompt")>>)>>

\* the requests HEOSDevice.updateState writes after registering its listener
StateQueries(conn, pid) ==
    <<[conn |-> conn, group |-> "system", command |-> "register_for_change_events",
       options |-> <<"on">>],
      [conn |-> conn, group |-> "player", command |-> "get_play_state",
       options |-> <<pid>>],
      [conn |-> conn, group |-> "player", command |-> "get_volume",
       options |-> <<pid>>],
      [conn |-> conn, group |-> "player", command |-> "get_mute",
       options |-> <<pid>>],
      [conn |-> conn, group |-> "player", command |-> "get_play_mode",
       options |-> <<pid>>],
      [conn |-> conn, group |-> "player", command |-> "get_now_playing_media",
       options |-> <<pid>>]>>

\* a guard of DenonDevice.initDenonProperties that never returns early
alreadyInited_Never(this) == FALSE

\* the guard of DenonDevice.initDenonProperties: the batch was started
alreadyInited(this) == this.initedProperties

\* Adapter.handleDeviceAdded that loses the device
handleDeviceAdded_Drop(w, dev) == w.devices

\* Adapter.handleDeviceAdded: this.devices[device.id] = device
handleDeviceAdded(w, dev) ==
    LET id == w.objs[dev].id
    IN  IF GetDevice(w, id) = 0
        THEN Append(w.devices, [id |-> id, dev |-> dev])
        ELSE [i \in 1..Len(w.devices) |->
                IF w.devices[i].id = id THEN [id |-> id, dev |-> dev]
                ELSE w.devices[i]]

\* the steps of the loops of DenonAdapter._startPairing that remove the
\* devices whose pid was not seen
RECURSIVE RemoveUnseenOps(_, _, _)
RemoveUnseenOps(w, devices, seenPids) ==
    IF devices = <<>> THEN <<>>
    ELSE LET player == w.objs[Head(devices).dev]
         IN  (IF ~player.isZone /\ player.heosPlayer.pid \notin seenPids
              THEN <<RemoveThing(Head(devices).dev)>> ELSE <<>>)
             \o RemoveUnseenOps(w, Tail(devices), seenPids)

\* the steps of the loop of ensureHeosConnection over the devices
RECURSIVE UpdateAllOps(_, _)
UpdateAllOps(w, devices) ==
    IF devices = <<>> THEN <<>>
    ELSE LET dev == Head(devices).dev
         IN  (IF ~w.objs[dev].isZone
              THEN <<Field(dev, "hasHeosConnectionListener", FALSE),
                     [op |-> "try"], UpdateState(dev), Catch(<<>>)>>
              ELSE <<>>)
             \o UpdateAllOps(w, Tail(devices))

\* the player the response handler of getDenonAVRs picks for a record
PickPlayer(heosPlayers, avr) ==
    LET found == {i \in 1..Len(heosPlayers) : heosPlayers[i].serial = avr.serial}
    IN  IF found # {}
        THEN heosPlayers[CHOOSE i \in found : \A j \in found : i <= j]
        ELSE IF heosPlayers # <<>> THEN heosPlayers[1]
        ELSE NoPlayer

\* DenonDevice.updateAVR: the comparison reads this.avr.addrss, a field no
\* record has
AddressChanged(current, avr) ==
    LET addrss == Undef
    IN  current = NoAvr \/ Str(avr.address) # addrss

(***************************************************************************)
(* The interpreter of the steps                                            *)
(***************************************************************************)
\* the steps of HEOSDevice.updateState / DenonDevice.updateState; this.ready
\* is read when the function is called
updateState(w, dev) ==
    IF w.objs[dev].kind = "avr"
    THEN <<Ensure, HeosListen(dev), AwaitReady(w.objs[dev].denonDevice),
           Send(dev, "PW?"), Send(dev, "ZM?")>>
    ELSE <<Ensure, HeosListen(dev)>>

\* the steps of HEOSDevice.destroy, DenonDevice.destroy, DenonZone.destroy;
\* a socket has no method disconnect, DenonDevice.destroy throws there
destroy(w, dev) ==
    LET this == w.objs[dev]
    IN  CASE this.kind = "heos" -> <<Field(dev, "destroyed", TRUE)>>
          [] this.kind = "avr" ->
                <<Field(dev, "destroyed", TRUE)>>
                \o (IF this.zone2 # 0
                    THEN <<RemoveThing(this.zone2), ClearParent(dev)>> ELSE <<>>)
                \o <<Throw>>
          [] this.kind = "zone" ->
                IF this.parent # 0
                THEN <<RemoveThing(this.parent), ClearZone(dev)>> ELSE <<>>

\* the steps of DenonAdapter.onDiscover
onDiscover(w, player, avr) ==
    IF player = NoPlayer THEN <<Throw>>
    ELSE LET device == GetDevice(w, HeosId(player.pid))
         IN  IF device = 0
             THEN <<Construct(IF avr # NoAvr THEN "avr" ELSE "heos", player, avr)>>
             ELSE IF avr # NoAvr /\ ~w.objs[device].isAVR
             THEN <<RemoveThing(device), OnDiscover(player, avr)>>
             ELSE <<Field(device, "heosPlayer", player)>>
                  \o (IF w.objs[device].isAVR /\ avr # NoAvr
                      THEN <<UpdateAVR(device, avr)>> ELSE <<>>)
                  \o <<ConnectedNotify(device, TRUE)>>

\* the world after the constructor of HEOSDevice or DenonDevice (with the
\* DenonZone it constructs), and the steps the constructor leaves
construct(w, kind, player, avr) ==
    LET dev == Len(w.objs) + 1
        zone == dev + 1
        sock == Len(w.socks) + 1
        id == HeosId(player.pid)
    IN  IF kind = "heos"
        THEN [w |-> [w EXCEPT
                       !.objs = Append(@, NewDevice("heos", id, player, NoAvr, 0, 0, 0)),
                       !.cache = Append(@, NewCache(w.version, "heos"))],
              ops |-> <<Defer(<<Register(dev)>>), Fork(<<UpdateState(dev)>>)>>]
        ELSE [w |-> [w EXCEPT
                       !.objs = @ \o <<NewDevice("avr", id, player, avr, sock, zone, 0),
                                       NewDevice("zone", id \o ZONE2, NoPlayer, NoAvr,
                                                 0, 0, dev)>>,
                       !.cache = @ \o <<NewCache(w.version, "avr"), NewCache(w.version, "zone")>>,
                       !.socks = Append(@, NewSocket(avr.address, dev,
                                                     <<<<Register(zone)>>,
                                                       <<Register(dev)>>>>))],
              ops |-> <<Fork(<<UpdateState(dev)>>)>>]

\* the world after DenonDevice.updateAVR on a constructed device: the
\* listeners are taken off the old socket, disconnect throws and is caught,
\* a new socket is opened
updateAVR(w, dev, avr) ==
    LET this == w.objs[dev]
        sock == Len(w.socks) + 1
    IN  IF AddressChanged(this.avr, avr)
        THEN [w EXCEPT
                !.socks = Append(
                    IF this.denonDevice # 0
                    THEN [@ EXCEPT ![this.denonDevice].listeners = {}]
                    ELSE @,
                    NewSocket(avr.address, dev, <<>>)),
                !.objs[dev].avr = avr,
                !.objs[dev].denonDevice = sock]
        ELSE [w EXCEPT !.objs[dev].avr = avr]

\* run the steps of an async function up to its next suspension
RECURSIVE Run(_, _)
Run(w, ops) ==
    IF ops = <<>> THEN w
    ELSE LET o == Head(ops)
             rest == Tail(ops)
             Raise(v) ==
                LET u == Unwind(rest, 0, 0)
                    x == [v EXCEPT !.depth = IF @ > u.returns THEN @ - u.returns ELSE 0]
                IN  IF u.caught THEN Run(x, u.ops)
                    ELSE IF u.call # 0
                    THEN [x EXCEPT !.calls[u.call] = "rejected", !.threw = TRUE]
                    ELSE [x EXCEPT !.threw = TRUE]
         IN  CASE o.op = "set" ->
                    Run([w EXCEPT !.cache[o.dev][o.name] = o.val], rest)
               [] o.op = "field" ->
                    Run([w EXCEPT !.objs[o.dev][o.name] = o.val], rest)
               [] o.op = "emit" ->
                    Run([w EXCEPT !.events = Append(@, <<o.dev, o.name>>)], rest)
               [] o.op = "send" ->
                    LET sock == w.objs[o.dev].denonDevice
                    IN  IF w.socks[sock].state = "closed" THEN Raise(w)
                        ELSE [w EXCEPT
                                !.denonOut = Append(@, [sock |-> sock,
                                                        msg |-> sendCommand(o.msg)]),
                                !.writeQ = Append(@, [sock |-> sock, rest |-> rest])]
               [] o.op = "line" -> Run(w, lineHandler(w, o.dev, o.msg) \o rest)
               [] o.op = "zline" ->
                    Run(w, zone_handleDenonInfo(w, o.dev, o.msg) \o rest)
               [] o.op = "init" ->
                    IF alreadyInited(w.objs[o.dev]) THEN Run(w, rest)
                    ELSE Run([w EXCEPT !.objs[o.dev].initedProperties = TRUE],
                             [i \in 1..Len(InitCommands) |-> Send(o.dev, InitCommands[i])]
                             \o <<ZoneInitProps(o.dev)>> \o rest)
               [] o.op = "zinit" ->
                    LET zone2 == w.objs[o.dev].zone2
                    IN  IF zone2 = 0 THEN Raise(w)
                        ELSE IF w.objs[zone2].parent = 0 THEN Raise(w)
                        ELSE Run(w, <<Send(w.objs[zone2].parent, ZONE2 \o "?"),
                                      Send(w.objs[zone2].parent, ZONE2 \o "MU?")>>
                                    \o rest)
               [] o.op = "pinit" ->
                    IF w.objs[o.dev].parent = 0 THEN Raise(w)
                    ELSE Run(w, <<InitProps(w.objs[o.dev].parent)>> \o rest)
               [] o.op = "fork" -> Run(Run(w, o.ops), rest)
               [] o.op = "defer" -> Run([w EXCEPT !.micro = Append(@, o.ops)], rest)
               [] o.op = "settle" ->
                    Run([w EXCEPT !.calls[o.call] = o.status], rest)
               [] o.op = "throw" -> Raise(w)
               [] o.op \in {"try", "catch"} -> Run(w, rest)
               [] o.op = "ensure" ->
                    IF w.heosConnection # 0 THEN Run(w, rest)
                    ELSE [w EXCEPT !.connecting =
                            Append(@, [kind |-> "discover", temp |-> FALSE,
                                       rest |-> ensureHeosConnection_connected \o rest])]
               [] o.op = "connect" ->
                    [w EXCEPT !.connecting =
                        Append(@, [kind |-> "connect", temp |-> o.temp, rest |-> rest])]
               [] o.op = "requestFail" ->
                    IF o.caller # 0 /\ w.objs[o.caller].isAVR
                    THEN Run(w, <<Connect(w.objs[o.caller].avr.address, TRUE)>> \o rest)
                    ELSE Raise(w)
               [] o.op = "adopt" ->
                    Run([w EXCEPT !.heosConnection = w.regConn], rest)
               [] o.op = "adoptIfNone" ->
                    Run(IF w.heosConnection = 0
                        THEN [w EXCEPT !.heosConnection = w.regConn] ELSE w, rest)
               [] o.op = "pick" ->
                    Run([w EXCEPT !.regConn = w.heosConnection], rest)
               [] o.op = "onceWrite" ->
                    IF w.regConn = 0 THEN Raise(w)
                    ELSE LET request == IF o.tracked THEN Len(w.requests) + 1 ELSE 0
                         IN  [w EXCEPT
                                !.requests =
                                    IF o.tracked
                                    THEN Append(@, [conn |-> w.regConn,
                                                    status |-> "pending"])
                                    ELSE @,
                                !.conns[w.regConn].once =
                                    Append(@, [group |-> o.group, command |-> o.command,
                                               request |-> request, rest |-> rest]),
                                !.heosOut =
                                    Append(@, [conn |-> w.regConn, group |-> o.group,
                                               command |-> o.command,
                                               options |-> o.options])]
               [] o.op = "applySources" ->
                    Run([w EXCEPT !.sourceInfo =
                            SelectSeq(w.regMsg.list,
                                      LAMBDA source : source.available = "true")],
                        rest)
               [] o.op = "registerClose" ->
                    IF w.heosConnection = 0 THEN Raise(w)
                    ELSE Run([w EXCEPT
                                !.conns[w.heosConnection].closeHandler = TRUE,
                                !.conns[w.heosConnection].eventHandlers = TRUE], rest)
               [] o.op = "updateAll" -> Run(w, UpdateAllOps(w, w.devices) \o rest)
               [] o.op = "updateState" -> Run(w, updateState(w, o.dev) \o rest)
               [] o.op = "heosListen" ->
                    IF w.objs[o.dev].hasHeosConnectionListener THEN Run(w, rest)
                    ELSE IF w.heosConnection = 0
                    THEN Raise([w EXCEPT !.objs[o.dev].hasHeosConnectionListener = TRUE])
                    ELSE Run([w EXCEPT
                                !.objs[o.dev].hasHeosConnectionListener = TRUE,
                                !.conns[w.heosConnection].onAll = Append(@, o.dev),
                                !.heosOut = @ \o StateQueries(w.heosConnection,
                                                w.objs[o.dev].heosPlayer.pid)],
                             rest)
               [] o.op = "awaitReady" ->
                    IF o.sock = 0 \/ w.socks[o.sock].connected THEN Run(w, rest)
                    ELSE [w EXCEPT !.socks[o.sock].waiters = Append(@, rest)]
               [] o.op = "passFinish" ->
                    LET players == w.regMsg.list
                    IN  Run(w, [i \in 1..Len(players) |-> OnDiscover(players[i], NoAvr)]
                               \o <<RemoveUnseen({players[i].pid : i \in 1..Len(players)})>>
                               \o rest)
               [] o.op = "removeUnseen" ->
                    Run(w, RemoveUnseenOps(w, w.devices, o.seenPids) \o rest)
               [] o.op = "ssdpDiscover" ->
                    Run(w, <<OnDiscover(PickPlayer(w.regMsg.list, o.avr), o.avr)>> \o rest)
               [] o.op = "onDiscover" -> Run(w, onDiscover(w, o.player, o.avr) \o rest)
               [] o.op = "construct" ->
                    LET c == construct(w, o.kind, o.player, o.avr)
                    IN  Run(c.w, c.ops \o rest)
               [] o.op = "updateAVR" -> Run(updateAVR(w, o.dev, o.avr), rest)
               [] o.op = "connectedNotify" ->
                    LET this == w.objs[o.dev]
                        text == IF o.state THEN "true" ELSE "false"
                    IN  IF this.kind # "avr"
                        THEN Run([w EXCEPT !.objs[o.dev].connected = text], rest)
                        ELSE IF this.zone2 = 0 THEN Raise(w)
                        ELSE Run([w EXCEPT !.objs[this.zone2].connected = text], rest)
               [] o.op = "removeThing" ->
                    IF w.depth >= StackLimit THEN Raise(w)
                    ELSE Run([w EXCEPT !.depth = @ + 1],
                             <<Destroy(o.dev), Unregister(o.dev), Return>> \o rest)
               [] o.op = "destroy" ->
                    Run([w EXCEPT !.objs[o.dev].destroyCalls = @ + 1],
                        destroy(w, o.dev) \o rest)
               [] o.op = "clearParent" ->
                    IF w.objs[o.dev].zone2 = 0 THEN Raise(w)
                    ELSE Run([w EXCEPT !.objs[w.objs[o.dev].zone2].parent = 0], rest)
               [] o.op = "clearZone" ->
                    IF w.objs[o.dev].parent = 0 THEN Raise(w)
                    ELSE Run([w EXCEPT !.objs[w.objs[o.dev].parent].zone2 = 0], rest)
               [] o.op = "unregister" ->
                    Run([w EXCEPT !.devices =
                            SelectSeq(@, LAMBDA d : d.id # w.objs[o.dev].id)], rest)
               [] o.op = "return" ->
                    Run([w EXCEPT !.depth = IF @ > 0 THEN @ - 1 ELSE 0], rest)
               [] o.op = "register" ->
                    Run([w EXCEPT !.devices = handleDeviceAdded(w, o.dev)], rest)

\* the callbacks of resolved promises run when the current task has ended
RECURSIVE Drain(_)
Drain(w) ==
    IF w.micro = <<>> THEN w
    ELSE Drain(Run([w EXCEPT !.micro = Tail(@)], Head(w.micro)))

(***************************************************************************)
(* Streaming protocol: inbound frames                                      *)
(***************************************************************************)
\* the SOURCES table
SOURCES ==
    [sid \in {1, 2, 3, 4, 5, 6, 7, 8, 9, 10, 12, 13, 15, 16, 18,
              1024, 1025, 1026, 1027, 1028} |->
        CASE sid = 1 -> "Pandora" [] sid = 2 -> "Rhapsody" [] sid = 3 -> "TuneIn"
          [] sid = 4 -> "Spotify" [] sid = 5 -> "Deezer" [] sid = 6 -> "Napster"
          [] sid = 7 -> "iHeartRadio" [] sid = 8 -> "Sirius XM"
          [] sid = 9 -> "Soundcloud" [] sid = 10 -> "Tidal" [] sid = 12 -> "Rdio"
          [] sid = 13 -> "Amazon Music" [] sid = 15 -> "Moodmix"
          [] sid = 16 -> "Juke" [] sid = 18 -> "QQMusic"
          [] sid = 1024 -> "Local Music" [] sid = 1025 -> "Playlist"
          [] sid = 1026 -> "History" [] sid = 1027 -> "Aux"
          [] sid = 1028 -> "Favorites"]

\* Number.parseFloat of a frame field: digits with an optional fraction
ParseFloat(v) ==
    IF v.t # "str" THEN NaN
    ELSE LET parts == Split(TrimLeft(v.s), ".", "")
             int == ParseInt(parts[1])
         IN  IF int.t = "nan" THEN NaN
             ELSE IF Len(parts) < 2 \/ ~AllDigits(parts[1]) \/ Len(parts[2]) = 0
                     \/ ~IsDigit(Head(parts[2]))
             THEN int
             ELSE LET RECURSIVE Pow10(_)
                      Pow10(k) == IF k = 0 THEN 1 ELSE 10 * Pow10(k - 1)
                      RECURSIVE DigitRun(_)
                      DigitRun(x) ==
                          IF Len(x) > 0 /\ IsDigit(Head(x))
                          THEN Head(x) \o DigitRun(Tail(x)) ELSE ""
                      frac == DigitRun(parts[2])
                  IN  JsAdd(int, Rat(DigitPrefix(frac, 0), Pow10(Len(frac))))

\* a || b
OrElse(a, b) == IF Truthy(a) THEN a ELSE b

\* the name of the source of a now-playing payload
sourceNameOf(w, sid) ==
    LET local == {i \in 1..Len(w.sourceInfo) : w.sourceInfo[i].sid = sid}
    IN  IF local # {}
        THEN Str(w.sourceInfo[CHOOSE i \in local : \A j \in local : i <= j].name)
        ELSE IF sid \in DOMAIN SOURCES THEN Str(SOURCES[sid]) ELSE Undef

\* the play-state case of HEOSDevice.handleHeosEvent without the clearing
playStateChanged_NoClear(dev, payload) ==
    <<Set(dev, "playing", Bool(payload.state = Str("play")))>>

\* the play-state case of HEOSDevice.handleHeosEvent
playStateChanged(dev, payload) ==
    <<Set(dev, "playing", Bool(payload.state = Str("play")))>>
    \o (IF payload.state = Str("stop")
        THEN <<Field(dev, "sourceType", Null),
               Field(dev, "availablePlaybackOptions", <<>>)>>
        ELSE <<>>)

\* HEOSDevice.handleHeosEvent (part_000)
handleHeosEvent(w, dev, message) ==
    LET payload == message.parsed
        key == message.group \o "/" \o message.command
        replaced == replacedProperties(w.objs[dev].kind)
    IN  CASE key \in {"player/get_play_state", "event/player_state_changed"} ->
                playStateChanged(dev, payload)
          [] key \in {"player/get_now_playing_media",
                      "event/player_now_playing_changed"} ->
                IF ~message.hasPayload THEN <<>>
                ELSE <<Set(dev, "source", sourceNameOf(w, message.payload.sid)),
                       Set(dev, "title", message.payload.song),
                       Set(dev, "album", message.payload.album),
                       Set(dev, "artist", message.payload.artist)>>
                     \o (IF ~w.objs[dev].overrideStation
                         THEN <<Set(dev, "station",
                                    OrElse(message.payload.station, Str("")))>>
                         ELSE <<>>)
                     \o <<Field(dev, "sourceType", message.payload.type),
                          Field(dev, "availablePlaybackOptions", message.options)>>
          [] key \in {"player/get_volume", "event/player_volume_changed"} ->
                (IF "volume" \notin replaced
                 THEN <<Set(dev, "volume", ParseFloat(payload.level))>> ELSE <<>>)
                \o (IF message.group = "event" /\ "muted" \notin replaced
                    THEN <<Set(dev, "muted", Bool(payload.mute = Str("on")))>>
                    ELSE <<>>)
          [] key = "player/get_mute" ->
                IF "muted" \in replaced THEN <<>>
                ELSE <<Set(dev, "muted", Bool(payload.state = Str("on")))>>
          [] key = "player/get_play_mode" ->
                <<Set(dev, "repeat", payload.repeat),
                  Set(dev, "shuffle", Bool(payload.shuffle = Str("on")))>>
          [] key = "event/repeat_mode_changed" ->
                <<Set(dev, "repeat", payload.repeat)>>
          [] key = "event/shuffle_mode_changed" ->
                <<Set(dev, "shuffle", Bool(payload.shuffle = Str("on")))>>
          [] key = "event/player_now_playing_progress" -> <<Emit(dev, "progress")>>
          [] key = "event/player_playback_error" -> <<Emit(dev, "playbackError")>>
          [] OTHER -> <<>>

\* HEOSDevice.replacedProperties in index.js
index_replacedProperties(kind) ==
    IF kind = "avr" THEN {"volume", "source", "muted"} ELSE {}

\* HEOSDevice.handleHeosEvent of index.js: a replaced source goes to the
\* shadow property heosSource
index_handleHeosEvent(w, dev, message) ==
    LET payload == message.parsed
        key == message.group \o "/" \o message.command
        replaced == index_replacedProperties(w.objs[dev].kind)
    IN  CASE key \in {"player/get_play_state", "event/player_state_changed"} ->
                <<Set(dev, "playing", Bool(payload.state = Str("play")))>>
                \o (IF payload.state = Str("stop")
                    THEN <<Field(dev, "sourceType", Null),
                           Field(dev, "availablePlaybackOptions", <<>>)>>
                    ELSE <<>>)
          [] key \in {"player/get_now_playing_media",
                      "event/player_now_playing_changed"} ->
                IF ~message.hasPayload THEN <<>>
                ELSE <<Set(dev, IF "source" \notin replaced THEN "source"
                                ELSE "heosSource",
                           sourceNameOf(w, message.payload.sid)),
                       Set(dev, "title", message.payload.song),
                       Set(dev, "album", message.payload.album),
                       Set(dev, "artist", message.payload.artist)>>
                     \o (IF ~w.objs[dev].overrideStation
                         THEN <<Set(dev, "station",
                                    OrElse(message.payload.station, Str("")))>>
                         ELSE <<>>)
                     \o <<Field(dev, "sourceType", message.payload.type),
                          Field(dev, "availablePlaybackOptions", message.options)>>
          [] key \in {"player/get_volume", "event/player_volume_changed"} ->
                (IF "volume" \notin replaced
                 THEN <<Set(dev, "volume", ParseFloat(payload.level))>> ELSE <<>>)
                \o (IF message.group = "event" /\ "muted" \notin replaced
                    THEN <<Set(dev, "muted", Bool(payload.mute = Str("on")))>>
                    ELSE <<>>)
          [] key = "player/get_mute" ->
                IF "muted" \in replaced THEN <<>>
                ELSE <<Set(dev, "muted", Bool(payload.state = Str("on")))>>
          [] key = "player/get_play_mode" ->
                <<Set(dev, "repeat", payload.repeat),
                  Set(dev, "shuffle", Bool(payload.shuffle = Str("on")))>>
          [] key = "event/repeat_mode_changed" ->
                <<Set(dev, "repeat", payload.repeat)>>
          [] key = "event/shuffle_mode_changed" ->
                <<Set(dev, "shuffle", Bool(payload.shuffle = Str("on")))>>
          [] key = "event/player_now_playing_progress" -> <<Emit(dev, "progress")>>
          [] key = "event/player_playback_error" -> <<Emit(dev, "playbackError")>>
          [] OTHER -> <<>>

\* an all-message listener that handles the frames of every player
onAllListener_AnyPlayer(w, dev, message) ==
    IF w.version = "part_000" /\ w.objs[dev].destroyed THEN w
    ELSE IF message.hasParsed
            /\ OrElse(message.result, Str("success")) = Str("success")
    THEN Run(w, <<[op |-> "try"]>>
                \o (IF w.version = "part_000" THEN handleHeosEvent(w, dev, message)
                    ELSE index_handleHeosEvent(w, dev, message))
                \o <<Catch(<<>>)>>)
    ELSE w

\* an all-message listener that handles the frames of its player whatever
\* their result
onAllListener_AnyResult(w, dev, message) ==
    IF w.version = "part_000" /\ w.objs[dev].destroyed THEN w
    ELSE IF message.hasParsed /\ message.parsed.pid = w.objs[dev].heosPlayer.pid
    THEN Run(w, <<[op |-> "try"]>>
                \o (IF w.version = "part_000" THEN handleHeosEvent(w, dev, message)
                    ELSE index_handleHeosEvent(w, dev, message))
                \o <<Catch(<<>>)>>)
    ELSE w

\* the all-message listener HEOSDevice.updateState registers; the listener
\* of index.js has no check of destroyed
onAllListener(w, dev, message) ==
    IF w.version = "part_000" /\ w.objs[dev].destroyed THEN w
    ELSE IF message.hasParsed /\ message.parsed.pid = w.objs[dev].heosPlayer.pid
            /\ OrElse(message.result, Str("success")) = Str("success")
    THEN Run(w, <<[op |-> "try"]>>
                \o (IF w.version = "part_000" THEN handleHeosEvent(w, dev, message)
                    ELSE index_handleHeosEvent(w, dev, message))
                \o <<Catch(<<>>)>>)
    ELSE w

\* the all-message listeners of a connection in turn
RECURSIVE onAllListeners(_, _, _)
onAllListeners(w, listeners, message) ==
    IF listeners = <<>> THEN w
    ELSE onAllListeners(onAllListener(w, Head(listeners), message),
                        Tail(listeners), message)

\* the one-shot listeners of a key in turn (makeHeosRequest, getDenonAVRs):
\* a temporary connection is closed, the promise resolved on a success
\* result and rejected otherwise
RECURSIVE onceListeners(_, _, _, _)
onceListeners(w, conn, listeners, message) ==
    IF listeners = <<>> THEN w
    ELSE LET l == Head(listeners)
             success == message.result = Str("success")
             closed == IF w.conns[conn].temp
                       THEN [w EXCEPT !.conns[conn].open = FALSE] ELSE w
             settled == IF l.request = 0 THEN closed
                        ELSE [closed EXCEPT !.requests[l.request].status =
                                 IF success THEN "resolved" ELSE "rejected"]
         IN  onceListeners(
                Run([settled EXCEPT !.regMsg = message],
                    IF success THEN l.rest ELSE <<Throw>> \o l.rest),
                conn, Tail(listeners), message)

\* the listeners ensureHeosConnection registers for two events
eventListeners(w, conn, message) ==
    IF ~w.conns[conn].eventHandlers \/ message.group # "event" THEN w
    ELSE IF message.command = "sources_changed" THEN Run(w, initSources)
    ELSE IF message.command = "players_changed" THEN Run(w, _startPairing)
    ELSE w

\* a dispatch that leaves the one-shot listeners it calls registered
dispatch_Keep(w, conn, message) ==
    LET hit(l) == l.group = message.group /\ l.command = message.command
        fired == SelectSeq(w.conns[conn].once, hit)
        afterEvents == eventListeners(w, conn, message)
        afterOnce == onceListeners(afterEvents, conn, fired, message)
    IN  onAllListeners(afterOnce, w.conns[conn].onAll, message)

\* a frame is dispatched to the listeners of a connection
dispatch(w, conn, message) ==
    LET hit(l) == l.group = message.group /\ l.command = message.command
        fired == SelectSeq(w.conns[conn].once, hit)
        left == [w EXCEPT !.conns[conn].once = SelectSeq(@, LAMBDA l : ~hit(l))]
        afterEvents == eventListeners(left, conn, message)
        afterOnce == onceListeners(afterEvents, conn, fired, message)
    IN  onAllListeners(afterOnce, w.conns[conn].onAll, message)

(***************************************************************************)
(* Property writes (part_000)                                              *)
(***************************************************************************)
\* Number.prototype.toFixed(0) of a non-negative number
ToFixed0(v) == ToDigits((2 * v.n + v.d) \div (2 * v.d))

\* the outcome of a setValue call: the world and the path taken
Outcome(w, path) == [w |-> w, path |-> path]

\* a request of a play mode that leaves the other mode's cached value out
heosWrite_Alone(w, dev, name, value) ==
    LET pid == w.objs[dev].heosPlayer.pid
    IN  <<Fork(makeHeosRequest("player", "set_play_mode", <<pid, value>>, 0))>>

\* the streaming request HEOSProperty.setValue starts for a property; the
\* request is not awaited
heosWrite(w, dev, name, value) ==
    LET pid == w.objs[dev].heosPlayer.pid
    IN  CASE name = "volume" ->
                <<Fork(makeHeosRequest("player", "set_volume",
                                       <<pid, ToDigits(Floor(value))>>, 0))>>
          [] name = "muted" ->
                <<Fork(makeHeosRequest("player", "set_muted",
                                       <<pid, IF Truthy(value) THEN "on" ELSE "off">>, 0))>>
          [] name = "repeat" ->
                <<Fork(makeHeosRequest("player", "set_play_mode",
                        <<pid, value,
                          IF Truthy(w.cache[dev]["shuffle"]) THEN "on" ELSE "off">>, 0))>>
          [] name = "shuffle" ->
                <<Fork(makeHeosRequest("player", "set_play_mode",
                        <<pid, w.cache[dev]["repeat"],
                          IF Truthy(value) THEN "on" ELSE "off">>, 0))>>
          [] OTHER -> <<>>

\* HEOSProperty.setValue without the comparison with the cached value
HEOSProperty_setValue_NoCompare(w, descr, dev, name, value, call) ==
    IF ~checkValue(descr, value)
    THEN Outcome([w EXCEPT !.calls[call] = "rejected"], "invalid")
    ELSE Outcome(Run(w, heosWrite(w, dev, name, value)
                        \o <<Set(dev, name, value), Settle(call, "resolved")>>),
                 "written")

\* HEOSProperty.setValue; for playing, this.getProperty is no method of a
\* property, the call throws before any request
HEOSProperty_setValue(w, descr, dev, name, value, call) ==
    IF StrictEq(value, w.cache[dev][name])
    THEN Outcome([w EXCEPT !.calls[call] = "resolved"], "same")
    ELSE IF ~checkValue(descr, value)
    THEN Outcome([w EXCEPT !.calls[call] = "rejected"], "invalid")
    ELSE IF name = "playing"
    THEN Outcome([w EXCEPT !.calls[call] = "rejected"], "threw")
    ELSE Outcome(Run(w, heosWrite(w, dev, name, value)
                        \o <<Set(dev, name, value), Settle(call, "resolved")>>),
                 "written")

\* the line DenonProperty.setValue sends for a property
denonCommand(name, value) ==
    CASE name = "on" -> "ZM" \o formatToggle(value)
      [] name = "audysseyLFC" -> "PSLFC " \o formatToggle(value)
      [] name = "band" -> "TMAN" \o ToStr(value)
      [] name = "preset" -> "TPAN" \o PadStart(ToFixed0(value), 2)
      [] name = "tunerFrequency" ->
            "TFAN" \o PadStart(ToFixed0(Rat(value.n * 100, value.d)), 6)
      [] name = "volume" -> "MV" \o formatVolume(value)
      [] name = "muted" -> "MU" \o formatToggle(value)
      [] name = "avrSource" -> "SI" \o ToStr(value)
      [] name = "surroundMode" -> "MS" \o ToStr(value)

\* DenonProperty.setValue: the cache is set when the write has completed
DenonProperty_setValue(w, descr, dev, name, value, call) ==
    IF StrictEq(value, w.cache[dev][name])
    THEN Outcome([w EXCEPT !.calls[call] = "resolved"], "same")
    ELSE IF ~checkValue(descr, value)
    THEN Outcome([w EXCEPT !.calls[call] = "rejected"], "invalid")
    ELSE Outcome(Run(w, <<Send(dev, denonCommand(name, value)),
                          Set(dev, name, value), Settle(call, "resolved")>>),
                 "written")

\* the line ZoneProperty.setValue sends for a property
zoneCommand(name, value) ==
    CASE name = "on" -> ZONE2 \o formatToggle(value)
      [] name = "input" -> ZONE2 \o ToStr(value)
      [] name = "volume" -> ZONE2 \o formatVolume(value)
      [] name = "muted" -> ZONE2 \o "MU" \o formatToggle(value)

\* ZoneProperty.setValue: the line goes through the parent's sendCommand
ZoneProperty_setValue(w, descr, dev, name, value, call) ==
    IF StrictEq(value, w.cache[dev][name])
    THEN Outcome([w EXCEPT !.calls[call] = "resolved"], "same")
    ELSE IF ~checkValue(descr, value)
    THEN Outcome([w EXCEPT !.calls[call] = "rejected"], "invalid")
    ELSE IF w.objs[dev].parent = 0
    THEN Outcome([w EXCEPT !.calls[call] = "rejected"], "threw")
    ELSE Outcome(Run(w, <<Send(w.objs[dev].parent, zoneCommand(name, value)),
                          Set(dev, name, value), Settle(call, "resolved")>>),
                 "written")

\* the setValue of the class of the property
setValue(w, dev, name, value, call) ==
    LET names == {w.sourceInfo[i].name : i \in 1..Len(w.sourceInfo)}
        descr == SchemaOf(w.objs[dev].kind, names)[name]
    IN  CASE descr.cls = "HEOSProperty" ->
                HEOSProperty_setValue(w, descr, dev, name, value, call)
          [] descr.cls = "DenonProperty" ->
                DenonProperty_setValue(w, descr, dev, name, value, call)
          [] descr.cls = "ZoneProperty" ->
                ZoneProperty_setValue(w, descr, dev, name, value, call)

(***************************************************************************)
(* State                                                                   *)
(***************************************************************************)
VARIABLES
    version,            \* the version of the adapter that runs
    objs,               \* the device objects constructed so far
    cache,              \* object -> property name -> cached value
    devices,            \* the adapter's device table, in insertion order
    socks,              \* the receiver sockets opened so far
    conns,              \* the streaming connections opened so far
    heosConnection,     \* DenonAdapter.heosConnection (0: null)
    connecting,         \* the functions awaiting discoverAndConnect or connect
    heosOut,            \* the frames written on streaming connections
    denonOut,           \* what was written on receiver sockets, in order
    writeQ,             \* the functions awaiting a write callback
    requests,           \* the promise of each makeHeosRequest
    calls,              \* the promise of each call of the gateway
    events,             \* the events and prompts notified, in order
    sourceInfo,         \* DenonAdapter.sourceInfo
    codec,              \* a volume on its way through the line codec
    lastOp,             \* the last operation taken (history)
    steps               \* the number of external operations so far

vars ==
    <<version, objs, cache, devices, socks, conns, heosConnection, connecting,
      heosOut, denonOut, writeQ, requests, calls, events, sourceInfo, codec,
      lastOp, steps>>

\* the world of the current state, at the start of a task
World ==
    [version |-> version, objs |-> objs, cache |-> cache, devices |-> devices,
     socks |-> socks, conns |-> conns, heosConnection |-> heosConnection,
     connecting |-> connecting, heosOut |-> heosOut, denonOut |-> denonOut,
     writeQ |-> writeQ, requests |-> requests, calls |-> calls,
     events |-> events, sourceInfo |-> sourceInfo,
     micro |-> <<>>, regConn |-> 0, regMsg |-> NoMessage, depth |-> 0,
     threw |-> FALSE]

\* the world of an adapter object before its constructor has run
Blank ==
    [version |-> "part_000", objs |-> <<>>, cache |-> <<>>, devices |-> <<>>,
     socks |-> <<>>, conns |-> <<>>, heosConnection |-> 0,
     connecting |-> <<>>, heosOut |-> <<>>, denonOut |-> <<>>,
     writeQ |-> <<>>, requests |-> <<>>, calls |-> <<>>,
     events |-> <<>>, sourceInfo |-> <<>>,
     micro |-> <<>>, regConn |-> 0, regMsg |-> NoMessage, depth |-> 0,
     threw |-> FALSE]

\* what an operation records of the state it started in
Before ==
    [cache |-> cache, devices |-> devices, heosOut |-> Len(heosOut),
     denonOut |-> Len(denonOut), pending |-> {r \in 1..Len(requests) :
                                                 requests[r].status = "pending"}]

\* no volume is in the codec
CodecIdle == [stage |-> "idle", value |-> Undef, line |-> "", decoded |-> Undef]

\* what the first operation finds recorded
Constructed ==
    [op |-> <<"constructor">>, threw |-> FALSE,
     before |-> [cache |-> <<>>, devices |-> <<>>, heosOut |-> 0,
                 denonOut |-> 0, pending |-> {}]]

\* the state is the world w
Is(w) ==
    /\ version = w.version
    /\ objs = w.objs
    /\ cache = w.cache
    /\ devices = w.devices
    /\ socks = w.socks
    /\ conns = w.conns
    /\ heosConnection = w.heosConnection
    /\ connecting = w.connecting
    /\ heosOut = w.heosOut
    /\ denonOut = w.denonOut
    /\ writeQ = w.writeQ
    /\ requests = w.requests
    /\ calls = w.calls
    /\ events = w.events
    /\ sourceInfo = w.sourceInfo

\* the next state is the world w, and the operation is recorded
Become(w, op) ==
    /\ version' = w.version
    /\ objs' = w.objs
    /\ cache' = w.cache
    /\ devices' = w.devices
    /\ socks' = w.socks
    /\ conns' = w.conns
    /\ heosConnection' = w.heosConnection
    /\ connecting' = w.connecting
    /\ heosOut' = w.heosOut
    /\ denonOut' = w.denonOut
    /\ writeQ' = w.writeQ
    /\ requests' = w.requests
    /\ calls' = w.calls
    /\ events' = w.events
    /\ sourceInfo' = w.sourceInfo
    /\ codec' = codec
    /\ lastOp' = [op |-> op, threw |-> w.threw, before |-> Before]

\* a task: the steps run, then the callbacks of the promises they resolved
Task(w, ops) == Drain(Run(w, ops))

\* the number of external operations a behaviour takes
MaxOps == 2

(***************************************************************************)
(* The adapter from its construction (part_000)                            *)
(***************************************************************************)
\* the constructor of DenonAdapter: no connection, no sources, and
\* startPairing is called
Init ==
    /\ Is(Task(Blank, _startPairing))
    /\ codec = CodecIdle
    /\ lastOp = Constructed
    /\ steps = 0

(***************************************************************************)
(* Inputs                                                                  *)
(***************************************************************************)
NoFields ==
    [pid |-> 0, state |-> Undef, level |-> Undef, mute |-> Undef,
     repeat |-> Undef, shuffle |-> Undef]

NoPayload ==
    [sid |-> 0, song |-> Undef, album |-> Undef, artist |-> Undef,
     station |-> Undef, type |-> Undef]

\* an inbound frame of the streaming protocol with a parsed message
Frame(group, command, result, parsed) ==
    [group |-> group, command |-> command, result |-> result,
     hasParsed |-> TRUE, parsed |-> parsed,
     hasPayload |-> FALSE, payload |-> NoPayload, options |-> <<>>, list |-> <<>>]

\* an inbound frame whose payload is a list
ListFrame(group, command, result, list) ==
    [group |-> group, command |-> command, result |-> result,
     hasParsed |-> FALSE, parsed |-> NoFields,
     hasPayload |-> TRUE, payload |-> NoPayload, options |-> <<>>, list |-> list]

\* the players of the network and the receiver records SSDP reports
Player1 == [pid |-> 1, serial |-> "s1"]

Player2 == [pid |-> 2, serial |-> "s2"]

PlayerLists == {<<>>, <<Player1>>, <<Player2>>, <<Player1, Player2>>}

Avrs == {[address |-> "a", serial |-> "s1"]}

MusicSources ==
    <<[sid |-> 3, name |-> "TuneIn", available |-> "true"],
      [sid |-> 1024, name |-> "Local Music", available |-> "true"],
      [sid |-> 4, name |-> "Spotify", available |-> "false"]>>

\* the responses and events of the streaming protocol the adapter itself
\* listens for
AdapterFrames ==
    {ListFrame("player", "get_players", Str("success"), l) : l \in PlayerLists}
    \cup
    {ListFrame("player", "get_players", Str("fail"), <<>>),
     ListFrame("browser", "get_music_sources", Str("success"), MusicSources),
     ListFrame("browser", "get_music_sources", Str("fail"), <<>>),
     ListFrame("player", "play_next", Str("success"), <<>>),
     ListFrame("player", "play_next", Str("fail"), <<>>),
     ListFrame("event", "players_changed", Undef, <<>>),
     ListFrame("event", "sources_changed", Undef, <<>>)}

\* a frame some listener of the connection waits for
Awaited(conn, message) ==
    \/ message.group = "event" /\ conns[conn].eventHandlers
    \/ \E i \in 1..Len(conns[conn].once) :
          /\ conns[conn].once[i].group = message.group
          /\ conns[conn].once[i].command = message.command

(***************************************************************************)
(* Actions                                                                 *)
(***************************************************************************)
\* the gateway calls startPairing
StartPairing ==
    /\ Become(Task(World, _startPairing), <<"startPairing">>)
    /\ steps' = steps + 1

\* the world when discoverAndConnect or connect resolves with a new
\* connection: the caller that waited for it continues
connected(w, i) ==
    LET waiting == w.connecting[i]
    IN  Task([w EXCEPT
                !.connecting = SubSeq(@, 1, i - 1) \o SubSeq(@, i + 1, Len(@)),
                !.conns = Append(@, NewConnection(waiting.temp)),
                !.regConn = Len(w.conns) + 1],
             waiting.rest)

\* discoverAndConnect or connect resolves with a new connection
Connected(i) ==
    /\ Become(connected(World, i), <<"connected", connecting[i].kind>>)
    /\ steps' = steps + 1

\* discoverAndConnect or connect rejects
ConnectFailed(i) ==
    /\ LET waiting == connecting[i]
           w == [World EXCEPT
                   !.connecting = SubSeq(@, 1, i - 1) \o SubSeq(@, i + 1, Len(@))]
       IN  Become(Task(w, <<Throw>> \o waiting.rest),
                  <<"connectFailed", waiting.kind>>)
    /\ steps' = steps + 1

\* a frame arrives on an open streaming connection
HeosMessage(conn, message) ==
    /\ conns[conn].open
    /\ version # "part_001"
    /\ Become(Drain(dispatch(World, conn, message)),
              <<"heosMessage", conn, message>>)
    /\ steps' = steps + 1

\* the world when a streaming connection closes: the handler of onClose,
\* when registered
heosClosed(w, conn) ==
    LET closed == [w EXCEPT !.conns[conn].open = FALSE]
        notified == SelectSeq(w.devices,
                       LAMBDA d : ~w.objs[d.dev].isAVR /\ ~w.objs[d.dev].isZone)
    IN  IF w.conns[conn].closeHandler
        THEN Task([closed EXCEPT !.heosConnection = 0],
                  [i \in 1..Len(notified) |->
                      ConnectedNotify(notified[i].dev, FALSE)])
        ELSE closed

\* a streaming connection closes
HeosClose(conn) ==
    /\ conns[conn].open
    /\ Become(heosClosed(World, conn), <<"heosClose", conn>>)
    /\ steps' = steps + 1

\* the SSDP client reports a receiver whose description was fetched
SsdpResponse(avr) ==
    /\ Become(Task(World, ssdpResponse(avr)), <<"ssdpResponse", avr>>)
    /\ steps' = steps + 1

\* a receiver socket connects: the ready promise resolves, the connect
\* listener runs, then the callbacks of the promise
SockConnect(sock) ==
    /\ socks[sock].state = "connecting"
    /\ LET w == [World EXCEPT
                   !.socks[sock].state = "open",
                   !.socks[sock].connected = TRUE,
                   !.socks[sock].waiters = <<>>,
                   !.micro = socks[sock].waiters]
           owner == socks[sock].owner
       IN  Become(Task(w, IF "connect" \in socks[sock].listeners
                          THEN <<ConnectedNotify(owner, TRUE),
                                 Fork(<<UpdateState(owner)>>)>>
                          ELSE <<>>),
                  <<"sockConnect", sock>>)
    /\ steps' = steps + 1

\* the callbacks of the writes outstanding on a socket, each with an error
RECURSIVE FailWrites(_, _)
FailWrites(w, waiting) ==
    IF waiting = <<>> THEN w
    ELSE FailWrites(Run(w, <<Throw>> \o Head(waiting).rest), Tail(waiting))

\* a receiver socket closes: its outstanding writes fail, the close listener
\* runs
SockClose(sock) ==
    /\ socks[sock].state # "closed"
    /\ LET w == [World EXCEPT
                   !.socks[sock].state = "closed",
                   !.writeQ = SelectSeq(@, LAMBDA q : q.sock # sock)]
           failed == FailWrites(w, SelectSeq(writeQ, LAMBDA q : q.sock = sock))
       IN  Become(Task(failed, IF "close" \in socks[sock].listeners
                               THEN <<ConnectedNotify(socks[sock].owner, FALSE)>>
                               ELSE <<>>),
                  <<"sockClose", sock>>)
    /\ steps' = steps + 1

\* the gateway removes a registered device
RemoveThingCall(dev) ==
    /\ \E i \in 1..Len(devices) : devices[i].dev = dev
    /\ Become(Task([World EXCEPT !.calls = Append(@, "pending")],
                   <<RemoveThing(dev), Settle(Len(calls) + 1, "resolved")>>),
              <<"removeThing", dev>>)
    /\ steps' = steps + 1

\* the gateway performs the action next on a registered device
PerformAction(dev) ==
    /\ \E i \in 1..Len(devices) : devices[i].dev = dev
    /\ ~objs[dev].isZone
    /\ Become(Task([World EXCEPT !.calls = Append(@, "pending")],
                   makeHeosRequest("player", "play_next",
                                   <<objs[dev].heosPlayer.pid>>, dev)
                   \o <<Settle(Len(calls) + 1, "resolved")>>),
              <<"performAction", dev>>)
    /\ steps' = steps + 1

\* the callback of the oldest outstanding write of a socket: its
\* sendCommand returns
WriteDone(sock) ==
    /\ socks[sock].state = "open"
    /\ \E i \in 1..Len(writeQ) :
          /\ writeQ[i].sock = sock
          /\ \A j \in 1..(i - 1) : writeQ[j].sock # sock
          /\ Become(Task([World EXCEPT
                            !.writeQ = SubSeq(@, 1, i - 1)
                                       \o SubSeq(@, i + 1, Len(@))],
                         writeQ[i].rest),
                    <<"writeDone", sock>>)
    /\ UNCHANGED steps

\* the number of external events a behaviour of the adapter takes
MaxEvents == 7

\* an event from outside: the gateway, the network, a speaker or a receiver
Event ==
    \/ StartPairing
    \/ \E i \in 1..Len(connecting) : Connected(i)
    \/ \E i \in 1..Len(connecting) : ConnectFailed(i)
    \/ \E conn \in 1..Len(conns) : \E message \in AdapterFrames :
          Awaited(conn, message) /\ HeosMessage(conn, message)
    \/ \E conn \in 1..Len(conns) : HeosClose(conn)
    \/ \E avr \in Avrs : SsdpResponse(avr)
    \/ \E sock \in 1..Len(socks) : SockConnect(sock)
    \/ \E sock \in 1..Len(socks) : SockClose(sock)
    \/ \E dev \in 1..Len(objs) : RemoveThingCall(dev)
    \/ \E dev \in 1..Len(objs) : PerformAction(dev)

Next ==
    \/ steps < MaxEvents /\ Event
    \/ \E sock \in 1..Len(socks) : WriteDone(sock)

Spec == Init /\ [][Next]_vars

(***************************************************************************)
(* The devices in operation: one single-protocol HEOSDevice (object 1,     *)
(* pid 2), one dual-protocol DenonDevice (object 2, pid 1) and, in         *)
(* part_000, its DenonZone (object 3), all constructed and registered, the *)
(* streaming connection open with the listener of both devices, the        *)
(* receiver connected.  Of index.js the inbound handlers are modelled, of  *)
(* part_001 the receiver line handler.                                     *)
(***************************************************************************)
Versions == {"part_000", "index.js", "part_001"}

DeviceObjects(v) ==
    <<[NewDevice("heos", HeosId(2), Player2, NoAvr, 0, 0, 0)
          EXCEPT !.hasHeosConnectionListener = TRUE, !.connected = "true"],
      [NewDevice("avr", HeosId(1), Player1, [address |-> "a", serial |-> "s1"],
                 1, IF v = "part_000" THEN 3 ELSE 0, 0)
          EXCEPT !.hasHeosConnectionListener = TRUE]>>
    \o (IF v = "part_000"
        THEN <<[NewDevice("zone", HeosId(1) \o ZONE2, NoPlayer, NoAvr, 0, 0, 2)
                   EXCEPT !.connected = "true"]>>
        ELSE <<>>)

DeviceWorld(v) ==
    [Blank EXCEPT
       !.version = v,
       !.objs = DeviceObjects(v),
       !.cache = [dev \in 1..Len(DeviceObjects(v)) |->
                     NewCache(v, DeviceObjects(v)[dev].kind)],
       !.devices = <<[id |-> HeosId(2), dev |-> 1]>>
                   \o (IF v = "part_000"
                       THEN <<[id |-> HeosId(1) \o ZONE2, dev |-> 3]>> ELSE <<>>)
                   \o <<[id |-> HeosId(1), dev |-> 2]>>,
       !.socks = <<[NewSocket("a", 2, <<>>)
                      EXCEPT !.state = "open", !.connected = TRUE]>>,
       !.conns = <<[NewConnection(FALSE)
                      EXCEPT !.onAll = <<1, 2>>, !.closeHandler = TRUE,
                             !.eventHandlers = TRUE]>>,
       !.heosConnection = 1,
       !.sourceInfo = SelectSeq(MusicSources,
                                LAMBDA source : source.available = "true")]

DevInit ==
    /\ \E v \in Versions : Is(DeviceWorld(v))
    /\ codec = CodecIdle
    /\ lastOp = Constructed
    /\ steps = 0

\* the property writes tried: valid values, and for each validation rule
\* a value it rejects
WriteInputs ==
    {<<1, "playing", Bool(TRUE)>>,
     <<1, "volume", Num(30)>>,
     <<1, "volume", Num(101)>>,
     <<1, "muted", Bool(TRUE)>>,
     <<1, "repeat", Str("on_all")>>,
     <<1, "repeat", Str("sometimes")>>,
     <<1, "shuffle", Bool(TRUE)>>,
     <<1, "title", Str("Song")>>,
     <<2, "repeat", Str("on_all")>>,
     <<2, "station", Str("Radio1")>>,
     <<2, "on", Bool(TRUE)>>,
     <<2, "avrSource", Str("TUNER")>>,
     <<2, "avrSource", Str("VCR")>>,
     <<2, "volume", Rat(91, 2)>>,
     <<2, "volume", Num(45)>>,
     <<2, "volume", Num(99)>>,
     <<2, "volume", Num(-1)>>,
     <<2, "muted", Bool(TRUE)>>,
     <<2, "audioOutput", Str("Speaker")>>,
     <<2, "surroundMode", Str("MOVIE")>>,
     <<2, "audysseyLFC", Bool(TRUE)>>,
     <<2, "tunerFrequency", Rat(211, 2)>>,
     <<2, "tunerFrequency", Num(79)>>,
     <<2, "preset", Num(5)>>,
     <<2, "preset", Num(57)>>,
     <<2, "band", Str("FM")>>,
     <<3, "on", Bool(TRUE)>>,
     <<3, "input", Str("CD")>>,
     <<3, "input", Str("VCR")>>,
     <<3, "volume", Rat(91, 2)>>,
     <<3, "volume", Num(99)>>,
     <<3, "muted", Bool(TRUE)>>}

\* the frames that arrive: for both players, events and responses, with a
\* success result, a failure result and no result
HeosFrames ==
    UNION {
      {Frame("event", "player_state_changed", Undef,
             [NoFields EXCEPT !.pid = p, !.state = Str("play")]),
       Frame("event", "player_state_changed", Undef,
             [NoFields EXCEPT !.pid = p, !.state = Str("stop")]),
       Frame("event", "player_volume_changed", Undef,
             [NoFields EXCEPT !.pid = p, !.level = Str("30"), !.mute = Str("on")]),
       Frame("player", "get_volume", Str("success"),
             [NoFields EXCEPT !.pid = p, !.level = Str("30")]),
       Frame("player", "get_mute", Str("success"),
             [NoFields EXCEPT !.pid = p, !.state = Str("on")]),
       Frame("player", "get_play_mode", Str("success"),
             [NoFields EXCEPT !.pid = p, !.repeat = Str("on_all"),
                              !.shuffle = Str("on")]),
       [Frame("event", "player_now_playing_changed", Undef,
              [NoFields EXCEPT !.pid = p])
          EXCEPT !.hasPayload = TRUE,
                 !.payload = [sid |-> 3, song |-> Str("Song"), album |-> Str("Album"),
                              artist |-> Str("Artist"), station |-> Str("Radio2"),
                              type |-> Str("station")],
                 !.options = <<"thumbs_up">>]} : p \in {1, 2}}
    \cup
     {Frame("player", "get_now_playing_media", Str("success"),
            [NoFields EXCEPT !.pid = 1]),
      Frame("event", "repeat_mode_changed", Undef,
            [NoFields EXCEPT !.pid = 1, !.repeat = Str("on_one")]),
      Frame("event", "shuffle_mode_changed", Undef,
            [NoFields EXCEPT !.pid = 2, !.shuffle = Str("off")]),
      Frame("event", "player_now_playing_progress", Undef,
            [NoFields EXCEPT !.pid = 1]),
      Frame("event", "player_playback_error", Undef,
            [NoFields EXCEPT !.pid = 2]),
      Frame("player", "get_volume", Str("fail"),
            [NoFields EXCEPT !.pid = 2, !.level = Str("60")]),
      Frame("player", "set_volume", Str("success"),
            [NoFields EXCEPT !.pid = 2, !.level = Str("30")]),
      Frame("player", "set_volume", Str("fail"),
            [NoFields EXCEPT !.pid = 2]),
      Frame("player", "set_play_mode", Undef,
            [NoFields EXCEPT !.pid = 1])}

\* the deliveries on the receiver socket
DenonDeliveries ==
    {"MV455\r", "MV45\r", "MUON\r", "MUOFF\r", "SINET\r", "SITUNER\r", "SICD\r",
     "ZMON\r", "ZMOFF\r", "PWON\r", "PWSTANDBY\r", "TFAN010550\r",
     "TFANNAME Radio1  \r", "TMANFM\r", "TPAN05\r", "PSLFC ON\r", "MSMOVIE\r",
     "OPTXM CON\r", "OPTXM\r", "Z2ON\r", "Z2MUON\r", "Z2455\r", "Z2CD\r",
     "MVMAX 98\r", "SSINFAI\r", "MV45\rMUON\r", "OPTXM\rMV45\r", "MV30", "MV45\rMU"}

\* the gateway calls setValue on a property of a registered device
SetValue(dev, name, value) ==
    /\ version = "part_000"
    /\ LET out == setValue([World EXCEPT !.calls = Append(@, "pending")],
                           dev, name, value, Len(calls) + 1)
       IN  Become(Drain(out.w), <<"setValue", dev, name, value, out.path>>)
    /\ steps' = steps + 1

\* data arrives on a receiver socket: rawListener starts handleDenonInfo
DenonData(sock, message) ==
    /\ socks[sock].state = "open"
    /\ "data" \in socks[sock].listeners
    /\ Become(Task(World, <<Line(socks[sock].owner, message)>>),
              <<"denonData", sock, message>>)
    /\ steps' = steps + 1

DevNext ==
    \/ /\ steps < MaxOps
       /\ \/ \E in \in WriteInputs : SetValue(in[1], in[2], in[3])
          \/ \E message \in HeosFrames : HeosMessage(1, message)
          \/ \E message \in DenonDeliveries : DenonData(1, message)
    \/ WriteDone(1)

SpecDevice == DevInit /\ [][DevNext]_vars

(***************************************************************************)
(* The volume codec on its own: a volume of the range of the property, in  *)
(* steps of 0.5, is formatted as DenonProperty.setValue formats it and the *)
(* digits parsed as DenonDevice.handleDenonInfo parses them.               *)
(***************************************************************************)
\* the maximum of the volume property of the receiver
VolumeMaximum == 98

CodecInit ==
    /\ Is(Blank)
    /\ codec \in {[CodecIdle EXCEPT !.stage = "value", !.value = Rat(k, 2)] :
                     k \in 0..(2 * VolumeMaximum)}
    /\ lastOp = Constructed
    /\ steps = 0

\* DenonProperty.formatVolume of the volume
Format ==
    /\ codec.stage = "value"
    /\ codec' = [codec EXCEPT !.stage = "line", !.line = formatVolume(codec.value)]
    /\ UNCHANGED <<version, objs, cache, devices, socks, conns, heosConnection,
                   connecting, heosOut, denonOut, writeQ, requests, calls,
                   events, sourceInfo, lastOp, steps>>

\* DenonDevice.parseVolume of the digits
Parse ==
    /\ codec.stage = "line"
    /\ codec' = [codec EXCEPT !.stage = "parsed", !.decoded = parseVolume(codec.line)]
    /\ UNCHANGED <<version, objs, cache, devices, socks, conns, heosConnection,
                   connecting, heosOut, denonOut, writeQ, requests, calls,
                   events, sourceInfo, lastOp, steps>>

CodecNext == Format \/ Parse

SpecCodec == CodecInit /\ [][CodecNext]_vars

(***************************************************************************)
(* The properties                                                          *)
(***************************************************************************)
\* the operation, the frames written and the lines written of the last step
LastIs(name) == lastOp.op[1] = name

NoFrameWritten == Len(heosOut) = lastOp.before.heosOut

NoLineWritten == Len(denonOut) = lastOp.before.denonOut

\* the description of a property of a device in the present state
DescrOf(dev, name) ==
    SchemaOf(objs[dev].kind, {sourceInfo[i].name : i \in 1..Len(sourceInfo)})[name]

\* C1: when the streaming connection closes and onClose fires, every request
\* of makeHeosRequest that was waiting for its response on that connection
\* is settled as failed in the same step.
C1_PendingFailOnClose ==
    (LastIs("heosClose") /\ conns[lastOp.op[2]].closeHandler)
       => \A r \in lastOp.before.pending :
             requests[r].conn = lastOp.op[2] => requests[r].status = "rejected"

\* C2: a setValue whose value equals the cached value returns (the call
\* resolves), writes no frame on the streaming connection, no line on the
\* receiver socket, and leaves the cache as it was.
C2_SameValueIsNoOp ==
    (LastIs("setValue")
     /\ StrictEq(lastOp.op[4], lastOp.before.cache[lastOp.op[2]][lastOp.op[3]]))
       => /\ calls[Len(calls)] = "resolved"
          /\ NoFrameWritten
          /\ NoLineWritten
          /\ cache = lastOp.before.cache

\* a property of the receiver was written with the value it had cached
C2_Witness ==
    /\ LastIs("setValue")
    /\ lastOp.op[4].t # "undef"
    /\ StrictEq(lastOp.op[4], lastOp.before.cache[lastOp.op[2]][lastOp.op[3]])
    /\ DescrOf(lastOp.op[2], lastOp.op[3]).cls = "DenonProperty"
    /\ calls[Len(calls)] = "resolved"

\* the validation rules a value fails: read-only, below the minimum, above
\* the maximum, no member of the enum
FailsValidation(descr, value) ==
    \/ descr.readOnly
    \/ descr.minimum.t = "num" /\ JsLess(value, descr.minimum)
    \/ descr.maximum.t = "num" /\ JsLess(descr.maximum, value)
    \/ descr.enum # {} /\ ToStr(value) \notin descr.enum

\* C3: a setValue whose value differs from the cached value and fails
\* validation is rejected, no frame and no line is written, and the cache
\* is unchanged.
C3_InvalidWriteRejected ==
    (LastIs("setValue")
     /\ ~StrictEq(lastOp.op[4], lastOp.before.cache[lastOp.op[2]][lastOp.op[3]])
     /\ FailsValidation(DescrOf(lastOp.op[2], lastOp.op[3]), lastOp.op[4]))
       => /\ calls[Len(calls)] = "rejected"
          /\ NoFrameWritten
          /\ NoLineWritten
          /\ cache = lastOp.before.cache

\* a volume above the maximum was written to the receiver device, whose
\* cached volume came from the receiver
C3_Witness ==
    /\ LastIs("setValue")
    /\ lastOp.op[2] = 2 /\ lastOp.op[3] = "volume" /\ lastOp.op[4] = Num(99)
    /\ lastOp.before.cache[2]["volume"] = Num(45)
    /\ calls[Len(calls)] = "rejected"

\* the names a dual-protocol device replaces in a version of the source
ReplacedNames == IF version = "index.js" THEN {"volume", "muted", "source"}
                 ELSE {"volume", "muted"}

\* the frame of the last step is for the player of the device and the
\* listener of the device handles it
FrameFor(dev) ==
    /\ LastIs("heosMessage")
    /\ lastOp.op[3].hasParsed
    /\ lastOp.op[3].parsed.pid = objs[dev].heosPlayer.pid
    /\ lastOp.op[3].result \in {Undef, Str("success")}
    /\ \E i \in 1..Len(conns[lastOp.op[2]].onAll) : conns[lastOp.op[2]].onAll[i] = dev

NowPlayingKeys ==
    {<<"player", "get_now_playing_media">>, <<"event", "player_now_playing_changed">>}

\* C4: on a dual-protocol device no inbound frame of the streaming protocol
\* changes the cached value of a replaced property (volume, muted, and
\* source in index.js); in index.js a now-playing frame sets the shadow
\* property heosSource.
C4_ReplacedUntouched ==
    \A dev \in 1..Len(objs) :
       (LastIs("heosMessage") /\ objs[dev].isAVR)
          => /\ \A name \in ReplacedNames :
                   cache[dev][name] = lastOp.before.cache[dev][name]
             /\ (/\ version = "index.js"
                 /\ FrameFor(dev)
                 /\ lastOp.op[3].hasPayload
                 /\ <<lastOp.op[3].group, lastOp.op[3].command>> \in NowPlayingKeys)
                   => cache[dev]["heosSource"]
                         = sourceNameOf([sourceInfo |-> sourceInfo],
                                        lastOp.op[3].payload.sid)

\* a volume frame for the player of the dual-protocol device arrived while
\* the device held a volume the receiver had reported
C4_Witness ==
    /\ FrameFor(2)
    /\ lastOp.op[3].command = "get_volume"
    /\ lastOp.op[3].parsed.level = Str("30")
    /\ cache[2]["volume"] = Rat(91, 2)

\* the step constructed a dual-protocol device for the player of a
\* registered single-protocol device: new is the new object, old the old
UpgradeOf(old, new) ==
    /\ LastIs("heosMessage")
    /\ new > Len(lastOp.before.cache)
    /\ objs[new].kind = "avr"
    /\ objs[old].kind = "heos"
    /\ objs[old].heosPlayer = objs[new].heosPlayer
    /\ \E i \in 1..Len(lastOp.before.devices) : lastOp.before.devices[i].dev = old

Registered(dev) == GetDevice([devices |-> devices], objs[dev].id) = dev

\* the socket the constructor of a device opened
FirstSocket(dev) == CHOOSE s \in 1..Len(socks) :
                       /\ socks[s].owner = dev
                       /\ \A t \in 1..Len(socks) : socks[t].owner = dev => s <= t

PassCompleted ==
    /\ LastIs("heosMessage")
    /\ lastOp.op[3].command = "get_players"
    /\ \E r \in lastOp.before.pending :
          requests[r].conn = lastOp.op[2] /\ requests[r].status = "resolved"

\* C6: when a discovery pass has completed, no registered non-zone device
\* has a pid that the pass did not report, and no zone of such a device is
\* registered.
C6_UnseenRemoved ==
    PassCompleted
       => \A i \in 1..Len(devices) :
             LET dev == devices[i].dev
                 owner == IF objs[dev].isZone THEN objs[dev].parent ELSE dev
             IN  owner # 0
                   => \E j \in 1..Len(lastOp.op[3].list) :
                         lastOp.op[3].list[j].pid = objs[owner].heosPlayer.pid

\* C7: the removal of a dual-protocol device returns, destroy is entered
\* once for the device and once for its zone, and afterwards neither is
\* registered.
C7_RemovalTerminates ==
    (LastIs("removeThing") /\ objs[lastOp.op[2]].kind = "avr")
       => /\ ~lastOp.threw
          /\ objs[lastOp.op[2]].destroyCalls <= 1
          /\ \A dev \in 1..Len(objs) :
                objs[dev].parent = lastOp.op[2] => objs[dev].destroyCalls <= 1
          /\ \A i \in 1..Len(devices) :
                /\ devices[i].dev # lastOp.op[2]
                /\ objs[devices[i].dev].kind # "zone"

\* C8: a volume that is a multiple of 0.5 in [0, 98] is the volume
\* parseVolume returns for the digits formatVolume wrote.
C8_VolumeRoundTrip == codec.stage = "parsed" => codec.decoded = codec.value

\* C9: every command DenonDevice.sendCommand writes on a receiver socket
\* ends with a carriage return.
C9_CommandsEndWithCR ==
    version = "part_000"
       => \A i \in 1..Len(denonOut) : EndsWith(denonOut[i].msg, "\r")

\* C10: in every version a line that begins with TFANNAME does not change
\* tunerFrequency, and a line TFAN followed by a digit does not change
\* station.
C10_TunerLinesClassified ==
    LastIs("denonData")
       => LET dev == socks[lastOp.op[2]].owner
              message == lastOp.op[3]
          IN  /\ StartsWith(message, "TFANNAME")
                   => cache[dev]["tunerFrequency"]
                         = lastOp.before.cache[dev]["tunerFrequency"]
              /\ (StartsWith(message, "TFAN") /\ IsDigit(SubSeq(message, 5, 5)))
                   => cache[dev]["station"] = lastOp.before.cache[dev]["station"]

\* the frame of the last step reports a play state
PlayStateKeys ==
    {<<"player", "get_play_state">>, <<"event", "player_state_changed">>}

StopFrameFor(dev) ==
    /\ FrameFor(dev)
    /\ <<lastOp.op[3].group, lastOp.op[3].command>> \in PlayStateKeys
    /\ lastOp.op[3].parsed.state = Str("stop")

\* C11: a play-state frame with state=stop for the pid of a device sets its
\* playing property to false, its sourceType to null and its
\* availablePlaybackOptions to the empty list, and changes no other property.
C11_StopClears ==
    (LastIs("heosMessage") /\ \E dev \in 1..Len(objs) : StopFrameFor(dev))
       => \A dev \in 1..Len(objs) :
             /\ StopFrameFor(dev)
                   => /\ cache[dev]["playing"] = Bool(FALSE)
                      /\ objs[dev].sourceType = Null
                      /\ objs[dev].availablePlaybackOptions = <<>>
             /\ \A name \in DOMAIN cache[dev] :
                   (name = "playing" /\ StopFrameFor(dev))
                   \/ cache[dev][name] = lastOp.before.cache[dev][name]

\* the player of the single-protocol device stopped after a now-playing
\* frame had set its title, source type and playback options
C11_Witness ==
    /\ StopFrameFor(1)
    /\ lastOp.before.cache[1]["title"] = Str("Song")
    /\ cache[1]["playing"] = Bool(FALSE)
    /\ objs[1].sourceType = Null

\* C12: a makeHeosRequest started while heosConnection is null fails in the
\* step in which it is called.
C12_FailsWhenDisconnected ==
    (LastIs("performAction") /\ heosConnection = 0)
       => calls[Len(calls)] = "rejected"

\* the world when the callbacks of all outstanding writes have run
RECURSIVE AfterWrites(_)
AfterWrites(w) ==
    IF w.writeQ = <<>> THEN w
    ELSE AfterWrites(Task([w EXCEPT !.writeQ = Tail(@)], Head(w.writeQ).rest))

\* the world after one delivery to the receiver device, its writes completed
Delivered(w, dev, message) == AfterWrites(Task(w, <<Line(dev, message)>>))

\* the world after the lines were delivered one at a time
RECURSIVE DeliveredEach(_, _, _)
DeliveredEach(w, dev, lines) ==
    IF lines = <<>> THEN w
    ELSE DeliveredEach(Delivered(w, dev, Head(lines) \o "\r"), dev, Tail(lines))

\* the lines the deliveries are joined of
SampleLines ==
    {"MV45", "MUON", "SITUNER", "TFANNAME Radio1", "ZMON", "ZMOFF", "PWON",
     "OPTXM CON", "OPTXM", "Z2ON", "SSINFAI"}

\* C13: one delivery of two complete lines leaves the property cache that
\* the delivery of the two lines one after the other leaves.
C13_JoinedAsEach ==
    (version = "part_000" /\ writeQ = <<>>)
       => \A l1, l2 \in SampleLines :
             Delivered(World, 2, l1 \o "\r" \o l2 \o "\r").cache
                = DeliveredEach(World, 2, <<l1, l2>>).cache

\* the delivery holds no carriage return
NoTerminator(message) == \A i \in 1..Len(message) : SubSeq(message, i, i) # "\r"

\* C14: a delivery that ends in the middle of a line is not decoded: a
\* delivery without a carriage return leaves the property cache as it was.
C14_FragmentNotDecoded ==
    (LastIs("denonData") /\ version = "part_000" /\ NoTerminator(lastOp.op[3]))
       => cache = lastOp.before.cache

\* lines that cannot be decoded: no known prefix, or a known prefix with a
\* body that is no value of the property
UndecodableLines == {"SSINFAI", "OPTXM", "MVMAX 98"}

\* C15: a line that cannot be decoded changes no cached property, and the
\* line that follows it in the same delivery is decoded.
C15_UndecodableContained ==
    (LastIs("denonData") /\ version = "part_000")
       => \A line \in UndecodableLines :
             LET dev == socks[lastOp.op[2]].owner
             IN  /\ lastOp.op[3] = line \o "\r" => cache = lastOp.before.cache
                 /\ lastOp.op[3] = line \o "\rMV45\r"
                       => cache = [lastOp.before.cache
                                     EXCEPT ![dev]["volume"] = Num(45)]

\* C16: the receiver socket of a dual-protocol device is replaced only when
\* the reported address differs from the stored one: no device has opened
\* two sockets to the same address.
C16_ReplacedOnNewAddressOnly ==
    \A s, t \in 1..Len(socks) :
       (s < t /\ socks[s].owner = socks[t].owner)
          => socks[s].address # socks[t].address

\* the last step delivered the one line to the receiver device (part_000)
LineDelivered(line) ==
    /\ LastIs("denonData")
    /\ version = "part_000"
    /\ lastOp.op[3] = line \o "\r"

\* the last step delivered exactly one terminated line to the receiver
\* device (part_000)
OneLineDelivered ==
    /\ LastIs("denonData")
    /\ version = "part_000"
    /\ EndsWith(lastOp.op[3], "\r")
    /\ NoTerminator(DropLast(lastOp.op[3]))

\* C17: a TFANNAME line sets station to the RDS name when the cached
\* avrSource is TUNER, and leaves station unchanged for every other source.
C17_RdsNameForTunerOnly ==
    (OneLineDelivered /\ StartsWith(lastOp.op[3], "TFANNAME"))
       => LET dev == socks[lastOp.op[2]].owner
          IN  IF lastOp.before.cache[dev]["avrSource"] = Str("TUNER")
              THEN cache[dev]["station"]
                      = Str(Trim(SliceFrom(DropLast(lastOp.op[3]), 8)))
              ELSE cache[dev]["station"] = lastOp.before.cache[dev]["station"]

\* the RDS name arrived while the receiver played the tuner
C17_Witness ==
    /\ LineDelivered("TFANNAME Radio1  ")
    /\ lastOp.before.cache[2]["avrSource"] = Str("TUNER")
    /\ cache[2]["station"] = Str("Radio1")

\* C18: an inbound SI NET clears overrideStation.
C18_NetClearsOverride ==
    LineDelivered("SINET") => ~objs[socks[lastOp.op[2]].owner].overrideStation

\* how often a command was written on the receiver sockets
Written(command) ==
    Cardinality({i \in 1..Len(denonOut) : denonOut[i].msg = command})

\* the queries that only the batch of initDenonProperties sends (Z2? is
\* sent by the PWON branch as well)
BatchQueries ==
    {"PSLFC?", "TFAN?", "TFANNAME?", "TPAN?", "TMAN?", "MV?", "MU?", "MS?",
     "SI?", "OPTXM?", "Z2MU?"}

\* C19: whatever power-on confirmations arrive, each query of the batch of
\* initDenonProperties is written at most once.
C19_BatchAtMostOnce ==
    version = "part_000" => \A command \in BatchQueries : Written(command) <= 1

\* Z2ON arrived after ZMON had started the batch and the batch had been
\* written to its end
C19_Witness ==
    /\ LineDelivered("Z2ON")
    /\ lastOp.before.denonOut > 0
    /\ cache[2]["on"] = Bool(TRUE)
    /\ cache[3]["on"] = Bool(TRUE)
    /\ Written("PSLFC?") = 1 /\ Written("Z2MU?") = 1

\* the number of external events a behaviour of the recovering adapter takes
MaxRecover == 5

\* the steps that complete what the bridge began without a new request: the
\* callback of a write, a connection of the streaming protocol established
Completion ==
    \/ \E sock \in 1..Len(socks) : WriteDone(sock)
    \/ steps < MaxRecover /\ \E i \in 1..Len(connecting) : Connected(i)

\* the adapter for as many events as a loss of a connection takes
RecoverNext ==
    \/ steps < MaxRecover /\ Event
    \/ \E sock \in 1..Len(socks) : WriteDone(sock)

\* the adapter, with every completion of what the bridge began taking place
SpecRecover == Init /\ [][RecoverNext]_vars /\ WF_vars(Completion)

\* no receiver socket is on its way to a connection
NoneConnecting == \A s \in 1..Len(socks) : socks[s].state # "connecting"

\* a registered receiver whose sockets have all closed, with no attempt to
\* connect under way
ReceiverDown ==
    /\ NoneConnecting
    /\ \E i \in 1..Len(devices) :
          /\ objs[devices[i].dev].isAVR
          /\ \E s \in 1..Len(socks) : socks[s].owner = devices[i].dev
          /\ \A s \in 1..Len(socks) :
                socks[s].owner = devices[i].dev => socks[s].state = "closed"

\* the streaming connection was lost and no attempt to connect is under way
HeosDown ==
    /\ \E conn \in 1..Len(conns) : conns[conn].closeHandler /\ ~conns[conn].open
    /\ heosConnection = 0
    /\ connecting = <<>>
    /\ NoneConnecting

\* C20: a connection of either protocol that was lost is followed, with no
\* new request, by an attempt of the bridge to connect again.
C20_ReconnectsUnasked ==
    /\ ReceiverDown ~> ~ReceiverDown
    /\ HeosDown ~> ~HeosDown

\* the world after a frame arrived on the streaming connection
Dispatched(w, message) == Drain(dispatch(w, 1, message))

\* the receiver lines that report volume and mute
VolumeLines == {"MV455\r", "MV45\rMUON\r"}

\* C21: a streaming frame has no effect on the volume and the mute state of
\* the dual-protocol device, wherever it falls among the receiver lines: in
\* every state, a receiver line leaves the same volume and mute state with
\* a frame before it, with a frame after it, and with no frame.
C21_FramePositionIrrelevant ==
    writeQ = <<>> =>
       \A message \in HeosFrames : \A line \in VolumeLines :
          LET alone == Delivered(World, 2, line).cache[2]
              before == Delivered(Dispatched(World, message), 2, line).cache[2]
              after == Dispatched(Delivered(World, 2, line), message).cache[2]
          IN  \A name \in {"volume", "muted"} :
                 /\ before[name] = alone[name]
                 /\ after[name] = alone[name]

\* a volume event for the player of the dual-protocol device arrived after
\* the receiver had reported volume and mute state, which the device keeps
C21_Witness ==
    /\ FrameFor(2)
    /\ lastOp.op[3].command = "player_volume_changed"
    /\ lastOp.before.cache[2]["volume"] = Num(45)
    /\ cache[2]["volume"] = Num(45)
    /\ cache[2]["muted"] = Bool(TRUE)

C23_OneArmedPerKey ==
    \A conn \in 1..Len(conns) :
       \A i, j \in 1..Len(conns[conn].once) :
          (/\ conns[conn].once[i].group = conns[conn].once[j].group
           /\ conns[conn].once[i].command = conns[conn].once[j].command)
             => i = j

\* C24: a frame without a result field resolves the requests armed for its
\* key, as the all-message listeners take such a frame for a success.
C24_NoResultResolves ==
    \A message \in HeosFrames :
       message.result = Undef =>
          \A i \in 1..Len(conns[1].once) :
             (/\ conns[1].once[i].group = message.group
              /\ conns[1].once[i].command = message.command
              /\ conns[1].once[i].request # 0)
                => Dispatched(World, message).requests[conns[1].once[i].request].status
                      = "resolved"

\* C25: every dual-protocol device holds a receiver record whose serial is
\* the serial of its player record.
C25_MergedBySerial ==
    \A dev \in 1..Len(objs) :
       objs[dev].isAVR => objs[dev].avr.serial = objs[dev].heosPlayer.serial

\* the one-shot listeners armed for a request, as <<connection, position>>
ArmedFor(w, request) ==
    UNION {{<<conn, i>> : i \in {j \in 1..Len(w.conns[conn].once) :
                                     w.conns[conn].once[j].request = request}} :
           conn \in 1..Len(w.conns)}

\* C26: a request whose frame was written is pending with exactly one
\* listener armed on its connection; the first frame with its key settles
\* it and removes the listener; a settled request has no listener and no
\* later frame changes how it was settled.
C26_SettledOnceByFirstFrame ==
    \A r \in 1..Len(requests) :
       /\ requests[r].status = "pending"
             => /\ Cardinality(ArmedFor(World, r)) = 1
                /\ \A a \in ArmedFor(World, r) : a[1] = requests[r].conn
       /\ requests[r].status # "pending" => ArmedFor(World, r) = {}
       /\ \A message \in HeosFrames :
             LET after == Dispatched(World, message)
                 mine == \E a \in ArmedFor(World, r) :
                            /\ conns[a[1]].once[a[2]].group = message.group
                            /\ conns[a[1]].once[a[2]].command = message.command
             IN  /\ mine => /\ after.requests[r].status # "pending"
                            /\ ArmedFor(after, r) = {}
                 /\ ~mine => after.requests[r] = requests[r]

\* the reply to set_volume arrived and settled the request of a write of
\* volume that had been written and was pending
C26_Witness ==
    /\ LastIs("heosMessage")
    /\ lastOp.op[3].command = "set_volume"
    /\ 1 \in lastOp.before.pending
    /\ lastOp.before.heosOut = 1
    /\ requests[1].status = "resolved"
    /\ conns[1].once = <<>>

\* C27: lines of separate deliveries take effect in the order of arrival:
\* when ZMON was delivered as the first traffic of the socket, then ZMOFF is
\* delivered and the writes outstanding complete, the main zone is cached
\* as off.
C27_LaterLineWins ==
    (version = "part_000" /\ LineDelivered("ZMON") /\ lastOp.before.denonOut = 0)
       => Delivered(World, 2, "ZMOFF\r").cache[2]["on"] = Bool(FALSE)

\* the reply to get_music_sources
SourcesReply ==
    ListFrame("browser", "get_music_sources", Str("success"), MusicSources)

\* the device is registered
IsRegistered(dev) == \E i \in 1..Len(devices) : devices[i].dev = dev

\* the world after _startPairing is called, discoverAndConnect resolves,
\* get_music_sources is answered and the writes outstanding complete
Reconnected(w) ==
    LET called == Task(w, _startPairing)
        joined == connected(called, Len(called.connecting))
    IN  AfterWrites(Drain(dispatch(joined, Len(joined.conns), SourcesReply)))

\* the world after SSDP reports the receiver of a registered device again
\* and get_players on the connection to its address lists its player:
\* updateAVR has opened another socket, which is not ready
ReportedAgain(w, dev) ==
    LET found == Task(w, ssdpResponse(w.objs[dev].avr))
        joined == connected(found, Len(found.connecting))
    IN  Drain(dispatch(joined, Len(joined.conns),
                       ListFrame("player", "get_players", Str("success"),
                                 <<w.objs[dev].heosPlayer>>)))

\* get_players was written on the newest connection of the world
PlayersAsked(w) ==
    \E i \in 1..Len(w.heosOut) :
       w.heosOut[i].command = "get_players" /\ w.heosOut[i].conn = Len(w.conns)

\* a registered dual-protocol device is connected and the streaming
\* connection is the one ensureHeosConnection established, with nothing
\* under way
Settled(dev) ==
    /\ IsRegistered(dev)
    /\ objs[dev].isAVR
    /\ socks[objs[dev].denonDevice].state = "open"
    /\ heosConnection # 0
    /\ conns[heosConnection].open
    /\ conns[heosConnection].closeHandler
    /\ connecting = <<>>
    /\ writeQ = <<>>

\* C29: a receiver socket that is not ready does not hold up the streaming
\* side: when the socket of a registered dual-protocol device was replaced
\* by one that is not ready and the streaming connection closes, the next
\* _startPairing connects again and its request get_players is written.
C29_UnreadySocketDoesNotBlock ==
    \A dev \in 1..Len(objs) :
       Settled(dev)
          => PlayersAsked(Reconnected(heosClosed(ReportedAgain(World, dev),
                                                 heosConnection)))

\* how many all-message listeners a device has on a connection of a world
Listeners(w, conn, dev) ==
    Cardinality({i \in 1..Len(w.conns[conn].onAll) : w.conns[conn].onAll[i] = dev})

\* the streaming connection is the one ensureHeosConnection established,
\* every receiver socket is connected and nothing is under way
AtRest ==
    /\ heosConnection # 0
    /\ conns[heosConnection].open
    /\ conns[heosConnection].closeHandler
    /\ connecting = <<>>
    /\ writeQ = <<>>
    /\ \A s \in 1..Len(socks) : socks[s].state = "open"

\* the world after the streaming connection closes, _startPairing connects
\* again and, before get_music_sources is answered on the new connection, a
\* second _startPairing is answered with the players; then
\* get_music_sources is answered and the writes outstanding complete
ReconnectedWhilePairing(players) ==
    LET closed == heosClosed(World, heosConnection)
        called == Task(closed, _startPairing)
        joined == connected(called, Len(called.connecting))
        again == Task(joined, _startPairing)
        found == Drain(dispatch(again, Len(again.conns),
                                ListFrame("player", "get_players", Str("success"),
                                          players)))
    IN  AfterWrites(Drain(dispatch(found, Len(found.conns), SourcesReply)))

\* C28: after the streaming connection closed and ensureHeosConnection
\* established a new one, every registered device that is no zone has
\* exactly one all-message listener on the new connection, and its refresh
\* requests were written on it.
C28_OneListenerAfterReconnect ==
    AtRest =>
       \A players \in PlayerLists :
          LET w == ReconnectedWhilePairing(players)
              conn == Len(w.conns)
          IN  \A i \in 1..Len(w.devices) :
                 LET dev == w.devices[i].dev
                 IN  ~w.objs[dev].isZone
                        => /\ Listeners(w, conn, dev) = 1
                           /\ \E k \in 1..Len(w.heosOut) :
                                 /\ w.heosOut[k].conn = conn
                                 /\ w.heosOut[k].command = "get_now_playing_media"
                                 /\ w.heosOut[k].options[1] = w.objs[dev].heosPlayer.pid

\* C30: a line MVMAX 98 is no volume report: it leaves the cached volume of
\* the dual-protocol device as it was, and the volume is not NaN after it.
C30_MaxVolumeIsNoReport ==
    LineDelivered("MVMAX 98")
       => /\ cache[2]["volume"] = lastOp.before.cache[2]["volume"]
          /\ cache[2]["volume"] # NaN

\* frequencies written to the tuner: multiples of 0.01 MHz
TunerFrequencies == {Num(88), Rat(211, 2), Rat(8775, 100)}

\* C31: the line a write of tunerFrequency sends, delivered as an inbound
\* line, sets the cached tunerFrequency to the frequency written.
C31_FrequencyRoundTrip ==
    (version = "part_000" /\ writeQ = <<>>)
       => \A f \in TunerFrequencies :
             Delivered(World, 2, denonCommand("tunerFrequency", f) \o "\r")
                .cache[2]["tunerFrequency"] = f


\* the play modes a streaming write composes into one request
PlayModes == {"repeat", "shuffle"}

\* the last request written on a streaming connection by the last operation
LastRequest == heosOut[Len(heosOut)]

\* C32: a write of shuffle or repeat that passes the comparison and the
\* validation writes exactly one frame, player/set_play_mode, with the pid, the
\* repeat mode and the shuffle toggle, the mode not written taken from the
\* cache as it was before the write; no line is written to a receiver.
C32_PlayModeCarriesBoth ==
    \A dev \in {1, 2}, name \in PlayModes :
       (/\ Len(lastOp.op) = 5
        /\ lastOp.op[1] = "setValue" /\ lastOp.op[2] = dev
        /\ lastOp.op[3] = name /\ lastOp.op[5] = "written")
          => /\ Len(heosOut) = lastOp.before.heosOut + 1
             /\ Len(denonOut) = lastOp.before.denonOut
             /\ LastRequest.group = "player"
             /\ LastRequest.command = "set_play_mode"
             /\ LastRequest.options =
                   <<objs[dev].heosPlayer.pid,
                     IF name = "repeat" THEN lastOp.op[4]
                     ELSE lastOp.before.cache[dev]["repeat"],
                     IF name = "shuffle"
                     THEN (IF Truthy(lastOp.op[4]) THEN "on" ELSE "off")
                     ELSE (IF Truthy(lastOp.before.cache[dev]["shuffle"])
                           THEN "on" ELSE "off")>>

\* shuffle is written while a repeat mode is cached
C32_Witness ==
    /\ lastOp.op = <<"setValue", 1, "shuffle", Bool(TRUE), "written">>
    /\ lastOp.before.cache[1]["repeat"] = Str("on_all")
    /\ LastRequest.options = <<2, Str("on_all"), "on">>

\* the device objects constructed for a player and not destroyed; a zone is
\* an object of its receiver, not of a player
LiveFor(pid) ==
    {dev \in 1..Len(objs) : /\ ~objs[dev].isZone
                            /\ ~objs[dev].destroyed
                            /\ objs[dev].heosPlayer.pid = pid}

\* C33: at every moment of the discovery, at most one device object that is
\* constructed and not destroyed exists for a pid.
C33_OneLiveDevicePerPid ==
    \A dev \in 1..Len(objs) :
       ~objs[dev].isZone => Cardinality(LiveFor(objs[dev].heosPlayer.pid)) <= 1

\* no connect, write, request or wait for a socket is under way
NothingUnderWay ==
    /\ connecting = <<>>
    /\ writeQ = <<>>
    /\ \A c \in 1..Len(conns) : conns[c].once = <<>>
    /\ \A s \in 1..Len(socks) : socks[s].waiters = <<>>

\* C34: when nothing is under way, the adapter's streaming connection has the
\* close, sources_changed and players_changed handlers, and no other open
\* connection carries a fan-out listener of a device.
C34_OneOwnedConnection ==
    NothingUnderWay
       => \A c \in 1..Len(conns) :
             conns[c].open
                => IF c = heosConnection
                   THEN conns[c].closeHandler /\ conns[c].eventHandlers
                   ELSE conns[c].onAll = <<>>

\* the socket can deliver data to its owner
Delivers(sock) == socks[sock].state = "open" /\ "data" \in socks[sock].listeners

\* C35: the receiver socket of a destroyed dual-protocol device is closed and
\* carries no listener, and a volume line arriving on it leaves the cache of
\* the device as it is.
C35_DestroyedIsDeaf ==
    \A dev \in 1..Len(objs) :
       (objs[dev].isAVR /\ objs[dev].destroyed /\ writeQ = <<>>)
          => LET sock == objs[dev].denonDevice
             IN  /\ socks[sock].state # "open"
                 /\ socks[sock].listeners = {}
                 /\ Delivers(sock)
                       => Delivered(World, dev, "MV45\r").cache[dev] = cache[dev]

\* the properties HEOSProperty.setValue writes with a streaming request
StreamWritten == {"volume", "muted", "repeat", "shuffle"}

\* C36: after a streaming write, as long as its request has not succeeded,
\* the cached value of the property is the value before the write.
C36_CacheWaitsForSuccess ==
    \A dev \in {1, 2}, name \in StreamWritten :
       (/\ Len(lastOp.op) = 5
        /\ lastOp.op[1] = "setValue" /\ lastOp.op[2] = dev
        /\ lastOp.op[3] = name /\ lastOp.op[5] = "written"
        /\ SchemaOf(objs[dev].kind, {})[name].cls = "HEOSProperty"
        /\ requests[Len(requests)].status # "resolved")
          => cache[dev][name] = lastOp.before.cache[dev][name]

\* C37: a write of playing with a value that differs from the cached one
\* writes exactly one frame, player/set_play_state with the pid of the device
\* and the state play for true and pause or stop for false, and sets the
\* cached value.
C37_PlayingWritten ==
    \A dev \in {1, 2} :
       (/\ Len(lastOp.op) = 5
        /\ lastOp.op[1] = "setValue" /\ lastOp.op[2] = dev
        /\ lastOp.op[3] = "playing" /\ lastOp.op[5] \notin {"same", "invalid"})
          => /\ Len(heosOut) = lastOp.before.heosOut + 1
             /\ LastRequest.group = "player"
             /\ LastRequest.command = "set_play_state"
             /\ LastRequest.options[1] = objs[dev].heosPlayer.pid
             /\ LastRequest.options[2] \in
                   (IF Truthy(lastOp.op[4]) THEN {"play"} ELSE {"pause", "stop"})
             /\ cache[dev]["playing"] = lastOp.op[4]

\* the sockets of a device other than the one it uses
Replaced(dev) ==
    {s \in 1..Len(socks) : socks[s].owner = dev /\ objs[dev].denonDevice # s}

\* C38: a socket that updateAVR has replaced is closed and carries no
\* listener, and a device has at most one socket that is not closed.
C38_PreviousSocketClosed ==
    \A dev \in 1..Len(objs) :
       /\ \A s \in Replaced(dev) :
             socks[s].state = "closed" /\ socks[s].listeners = {}
       /\ Cardinality({s \in 1..Len(socks) : /\ socks[s].owner = dev
                                             /\ socks[s].state # "closed"}) <= 1

\* the frame with a failure result
Failed(message) == [message EXCEPT !.result = Str("fail")]

=============================================================================
